---- MODULE Spec2Model ----
(***************************************************************************)
(* Personalization pipeline of the FinPersona backend: eligibility filter, *)
(* heuristic scorer, recommendation orchestrator, insight merge-and-cap    *)
(* and anomaly detection, as state machines over the document store.       *)
(*                                                                         *)
(* Conventions.  A key that is missing from a document is the value Absent *)
(* (numbers) or AbsentStr (strings).  Time is counted in days.  The module *)
(* level name products_collection of db/product_operations.py is read as   *)
(* the products collection of the store.                                   *)
(***************************************************************************)
EXTENDS Integers, Sequences, FiniteSets, TLC

VARIABLES
    \* ---- scorer / filter harness (pure functions applied to one pair)
    s_user, s_product, s_phase, s_score, s_eligible,
    \* ---- recommendation orchestrator
    user, catalog, recommendations, pc, count, eligible_products, idx,
    recommendation_records, calls, result,
    \* ---- insight pipeline
    insights, now, next_id, ipc, isnap, ireturned, lastw, nrefresh,
    \* ---- anomaly pipeline
    transactions, anomalies, apc, advisor_calls, aresult,
    \* ---- predicted-expense pipeline
    ewindow, predicted_expenses, epc, recurring_data, predictions, eresult,
    eprevious,
    \* ---- persistence of generated insight / anomaly records
    vgenerated, vstored, vpc,
    \* ---- advisor adapter (one call of one GenAIService method)
    g_method, g_enough, g_remote, g_phase, g_outcome,
    \* ---- recommendation store operations
    rf_id, st_result, st_last, st_ops,
    \* ---- read / acted-upon / acknowledged toggles of a user document
    user_updated_at, u_last, u_result, u_ops,
    \* ---- generate_comparison (one call)
    c_ids, c_user_found, c_pc, c_result, c_compared,
    \* ---- refresh-all-users job
    j_users, j_pc, j_invoked, j_result,
    \* ---- generate_user_insights (one call with its points of failure)
    k_fail, k_has_tx, k_no_fund, k_pc, k_loaded, k_outcome

s_vars == <<s_user, s_product, s_phase, s_score, s_eligible>>
r_vars == <<user, catalog, recommendations, pc, count, eligible_products, idx,
            recommendation_records, calls, result>>
i_vars == <<insights, now, next_id, ipc, isnap, ireturned, lastw, nrefresh>>
a_vars == <<transactions, anomalies, apc, advisor_calls, aresult>>
e_vars == <<ewindow, predicted_expenses, epc, recurring_data, predictions,
            eresult, eprevious>>
v_vars == <<vgenerated, vstored, vpc>>
g_vars == <<g_method, g_enough, g_remote, g_phase, g_outcome>>
st_vars == <<rf_id, st_result, st_last, st_ops>>
u_vars == <<user_updated_at, u_last, u_result, u_ops>>
c_vars == <<c_ids, c_user_found, c_pc, c_result, c_compared>>
j_vars == <<j_users, j_pc, j_invoked, j_result>>
k_vars == <<k_fail, k_has_tx, k_no_fund, k_pc, k_loaded, k_outcome>>
l_vars == <<c_vars, j_vars, k_vars>>
n_vars == <<e_vars, v_vars, g_vars, st_vars, u_vars, l_vars>>
b_vars == <<s_vars, r_vars, i_vars, a_vars, e_vars, v_vars, g_vars, st_vars, u_vars>>
vars == <<s_vars, r_vars, i_vars, a_vars, n_vars>>

\* ------------------------------------------------------------------------
\* Documents
\* ------------------------------------------------------------------------
Absent == -1
AbsentStr == "<absent>"

\* str.lower() on the strings that occur in the documents below.
Lower(s) ==
    CASE s = "Moderate" -> "moderate"
      [] s = "Savings" -> "savings"
      [] s = "Loans" -> "loans"
      [] s = "Investments" -> "investments"
      [] OTHER -> s

\* dict.get(key, default) on a numeric / string field.
Get(v, default) == IF v = Absent THEN default ELSE v
GetStr(v, default) == IF v = AbsentStr THEN default ELSE v

Product(id, cat, act, mi, mc, rl, amin, amax) ==
    [product_id |-> id, category |-> cat, is_active |-> act, min_income |-> mi,
     min_credit_score |-> mc, risk_level |-> rl,
     target_age_min |-> amin, target_age_max |-> amax]

User(inc, cs, rp, age, prefs, goals) ==
    [monthly_income |-> inc, credit_score |-> cs, risk_profile |-> rp,
     age |-> age, preferred_categories |-> prefs, financial_goals |-> goals]

\* ------------------------------------------------------------------------
\* Eligibility filter: the query of get_products_by_eligibility on one
\* product document.  A comparison ($lte, $gte, equality) matches only a
\* document that has the field; only the two age bounds carry an
\* "$exists: False" alternative.
\* ------------------------------------------------------------------------
MatchesEligibilityQuery(p, income, credit_score, risk_level, age) ==
    /\ p.is_active
    /\ (income # Absent =>
            (p.min_income # Absent /\ p.min_income <= income))
    /\ (credit_score # Absent =>
            (p.min_credit_score # Absent /\ p.min_credit_score <= credit_score))
    /\ (risk_level # AbsentStr =>
            (p.risk_level # AbsentStr /\ p.risk_level = risk_level))
    /\ (age # Absent =>
            /\ (p.target_age_min = Absent \/ p.target_age_min <= age)
            /\ (p.target_age_max = Absent \/ p.target_age_max >= age))

\* The call made by generate_recommendations: the user's own attributes.
IsEligible(p, u) ==
    MatchesEligibilityQuery(p, u.monthly_income, u.credit_score,
                        u.risk_profile, u.age)

\* ------------------------------------------------------------------------
\* Heuristic scorer: _basic_eligibility_score
\* ------------------------------------------------------------------------
GoalAligned(product_category, goal_type) ==
    \/ (product_category = "savings" /\ goal_type \in {"emergency_fund", "savings"})
    \/ (product_category = "investments" /\ goal_type \in {"retirement", "investment"})
    \/ (product_category = "loans" /\ goal_type \in {"home_purchase", "car_purchase"})

\* Mutation: the break is dropped, every aligned goal adds 2.
RECURSIVE GoalBonusNoBreak(_, _, _)
GoalBonusNoBreak(product_category, goals, i) ==
    IF i > Len(goals) THEN 0
    ELSE (IF GoalAligned(product_category, Lower(goals[i])) THEN 2 ELSE 0)
         + GoalBonusNoBreak(product_category, goals, i + 1)

\* The loop over the user's goals: +2 at the first aligned goal, then break.
RECURSIVE GoalBonus(_, _, _)
GoalBonus(product_category, goals, i) ==
    IF i > Len(goals) THEN 0
    ELSE IF GoalAligned(product_category, Lower(goals[i])) THEN 2
    ELSE GoalBonus(product_category, goals, i + 1)

\* Mutation: the guards "min_income > 0" and "min_credit_score > 0" are dropped.
basic_eligibility_score_unguarded(p, u) ==
    LET income == Get(u.monthly_income, 0)
        credit_score == Get(u.credit_score, 0)
        risk_level == Lower(GetStr(u.risk_profile, ""))
        age == Get(u.age, 0)
        min_income == Get(p.min_income, 0)
        min_credit_score == Get(p.min_credit_score, 0)
        product_risk_level == Lower(GetStr(p.risk_level, ""))
        target_age_min == Get(p.target_age_min, 0)
        target_age_max == Get(p.target_age_max, 999)
    IN    (IF income >= min_income THEN 1 ELSE 0)
        + (IF credit_score >= min_credit_score THEN 1 ELSE 0)
        + (IF product_risk_level # "" /\ risk_level = product_risk_level THEN 2 ELSE 0)
        + (IF age >= target_age_min /\ age <= target_age_max THEN 1 ELSE 0)
        + (IF GetStr(p.category, "") \in u.preferred_categories THEN 3 ELSE 0)
        + GoalBonus(Lower(GetStr(p.category, "")), u.financial_goals, 1)

basic_eligibility_score(p, u) ==
    LET income == Get(u.monthly_income, 0)
        credit_score == Get(u.credit_score, 0)
        risk_level == Lower(GetStr(u.risk_profile, ""))
        age == Get(u.age, 0)
        min_income == Get(p.min_income, 0)
        min_credit_score == Get(p.min_credit_score, 0)
        product_risk_level == Lower(GetStr(p.risk_level, ""))
        target_age_min == Get(p.target_age_min, 0)
        target_age_max == Get(p.target_age_max, 999)
    IN    (IF min_income > 0 /\ income >= min_income THEN 1 ELSE 0)
        + (IF min_credit_score > 0 /\ credit_score >= min_credit_score THEN 1 ELSE 0)
        + (IF product_risk_level # "" /\ risk_level = product_risk_level THEN 2 ELSE 0)
        + (IF age >= target_age_min /\ age <= target_age_max THEN 1 ELSE 0)
        + (IF GetStr(p.category, "") \in u.preferred_categories THEN 3 ELSE 0)
        + GoalBonus(Lower(GetStr(p.category, "")), u.financial_goals, 1)

\* ------------------------------------------------------------------------
\* Scorer and filter applied to one product/user pair
\* ------------------------------------------------------------------------
ProductSpace ==
    { Product("p", cat, act, mi, mc, rl, amin, amax) :
        cat \in {"Savings", "savings", "loans"}, act \in BOOLEAN,
        mi \in {Absent, 0, 60000}, mc \in {Absent, 700},
        rl \in {AbsentStr, "moderate"},
        amin \in {Absent, 25}, amax \in {Absent, 45} }

UserSpace ==
    { User(inc, cs, rp, age, prefs, goals) :
        inc \in {Absent, 50000, 80000}, cs \in {650, 750},
        rp \in {"moderate", "Moderate", "aggressive"}, age \in {30, 50},
        prefs \in {{}, {"savings"}},
        goals \in {<<>>, <<"emergency_fund", "savings">>, <<"home_purchase">>} }

NoUser == User(Absent, Absent, AbsentStr, Absent, {}, <<>>)
NoProduct == Product("", "", FALSE, Absent, Absent, AbsentStr, Absent, Absent)

ScorerIdle ==
    /\ s_user = NoUser /\ s_product = NoProduct /\ s_phase = "off"
    /\ s_score = 0 /\ s_eligible = FALSE

ScorerInit ==
    /\ s_user \in UserSpace
    /\ s_product \in ProductSpace
    /\ s_phase = "input"
    /\ s_score = 0
    /\ s_eligible = FALSE

\* key=lambda p: self._basic_eligibility_score(p, user)
ApplyScore ==
    /\ s_phase = "input"
    /\ s_score' = basic_eligibility_score(s_product, s_user)
    /\ s_phase' = "scored"
    /\ UNCHANGED <<s_user, s_product, s_eligible, r_vars, i_vars, a_vars, n_vars>>

\* ProductOperations.get_products_by_eligibility(income=..., ...) on s_product
ApplyFilter ==
    /\ s_phase = "input"
    /\ s_eligible' = IsEligible(s_product, s_user)
    /\ s_phase' = "filtered"
    /\ UNCHANGED <<s_user, s_product, s_score, r_vars, i_vars, a_vars, n_vars>>

\* ------------------------------------------------------------------------
\* Recommendation orchestrator: EnhancedRecommendationService
\* ------------------------------------------------------------------------
MaxCount == 2
ScoreThreshold == 60

\* Scores the advisor adapter hands back (generate_product_recommendation
\* returns an integer clamped to 0..100).
AdvisorScores == {45, 59, 60, 75}

SeedCatalog ==
    << Product("prod1", "Savings", TRUE, 0, 680, "moderate", 18, 65),
       Product("prod2", "Investments", TRUE, 75000, 720, "aggressive", 25, 45),
       Product("prod3", "Loans", TRUE, 50000, 680, "moderate", 25, 65),
       Product("prod4", "loans", TRUE, 60000, 700, "moderate", Absent, Absent),
       Product("prod5", "savings", FALSE, 0, 0, "moderate", 18, 99) >>

\* Products without a credit-score criterion and one without any criterion.
SparseCatalog ==
    << Product("prod1", "savings", TRUE, 100000, Absent, "conservative", 25, 65),
       Product("prod2", "loans", TRUE, 60000, Absent, "moderate", 25, 65),
       Product("prod3", "investments", TRUE, Absent, Absent, AbsentStr, Absent, Absent) >>

Catalogs == { SeedCatalog, SparseCatalog, SubSeq(SeedCatalog, 1, 3), <<>> }

RecUsers ==
    { User(80000, 750, "moderate", 30, {"loans"}, <<"home_purchase">>),
      User(90000, 800, "aggressive", 30, {"investments"}, <<"retirement">>),
      User(40000, 600, "conservative", 70, {}, <<>>) }

Min(a, b) == IF a < b THEN a ELSE b

\* ProductOperations.get_products(active_only=True)
get_products(cat) == SelectSeq(cat, LAMBDA p : p.is_active)

\* ProductOperations.get_products_by_eligibility(...) for the user
get_products_by_eligibility(cat, u) == SelectSeq(cat, LAMBDA p : IsEligible(p, u))

\* sorted(..., key=..., reverse=True): descending and stable, equal keys keep
\* their order.  The first element with the largest key is taken each time.
RECURSIVE SortedAscending(_, _)
SortedAscending(seq, u) ==
    IF seq = <<>> THEN <<>>
    ELSE LET m == CHOOSE i \in 1..Len(seq) :
                    /\ \A j \in 1..Len(seq) :
                          basic_eligibility_score(seq[j], u) >= basic_eligibility_score(seq[i], u)
                    /\ \A j \in 1..(i - 1) :
                          basic_eligibility_score(seq[j], u) > basic_eligibility_score(seq[i], u)
         IN <<seq[m]>> \o SortedAscending(SubSeq(seq, 1, m - 1) \o SubSeq(seq, m + 1, Len(seq)), u)

RECURSIVE SortedByScore(_, _)
SortedByScore(seq, u) ==
    IF seq = <<>> THEN <<>>
    ELSE LET m == CHOOSE i \in 1..Len(seq) :
                    /\ \A j \in 1..Len(seq) :
                          basic_eligibility_score(seq[j], u) <= basic_eligibility_score(seq[i], u)
                    /\ \A j \in 1..(i - 1) :
                          basic_eligibility_score(seq[j], u) < basic_eligibility_score(seq[i], u)
         IN <<seq[m]>> \o SortedByScore(SubSeq(seq, 1, m - 1) \o SubSeq(seq, m + 1, Len(seq)), u)

\* Lines 57-78: eligible products, the active catalog when there are none,
\* ranked only when there are more of them than requested.
RankedCandidates(cat, u, c) ==
    LET all_products == get_products(cat)
        filtered == get_products_by_eligibility(cat, u)
        eligible == IF filtered = <<>> THEN all_products ELSE filtered
    IN IF Len(eligible) > c THEN SortedByScore(eligible, u) ELSE eligible

\* max_products_to_try = min(count * 2, len(eligible_products))
max_products_to_try_all(c, eligible) == Len(eligible)

max_products_to_try(c, eligible) == Min(c * 2, Len(eligible))

\* "if score < 60: continue" -- the acceptance test of one advisor result.
AcceptedOff(score) == TRUE

Accepted(score) == ~(score < ScoreThreshold)

\* The loop goes on to candidate i while candidates are left and fewer than
\* count recommendations were accepted ("if len(...) >= count: break").
LoopCountsProcessed(records, c, i, eligible) ==
    i <= max_products_to_try(c, eligible) /\ i <= c

LoopContinues(records, c, i, eligible) ==
    i <= max_products_to_try(c, eligible) /\ Len(records) < c

\* The handler of the inner try: log and "continue" with the next candidate.
AbortOnFailure(records, c, i, eligible) == FALSE

ContinueAfterFailure(records, c, i, eligible) == LoopContinues(records, c, i, eligible)

RecommendationTTL == 30

\* Lines 111-136; datetime.now() is the variable now.
NewRecommendation(p, score, n) ==
    [recommendation_id |-> n, user_id |-> "u1", product_id |-> p.product_id,
     score |-> score, reason |-> "generated",
     timestamp |-> now, expires_at |-> now + RecommendationTTL,
     is_viewed |-> FALSE, is_clicked |-> FALSE,
     feedback |-> [is_helpful |-> "none", feedback_date |-> Absent],
     conversion |-> [is_converted |-> FALSE, conversion_date |-> Absent],
     updated_at |-> Absent,
     metadata |-> [generation_time |-> now, is_refresh |-> FALSE]]

RecIdle ==
    /\ user = NoUser /\ catalog = <<>> /\ recommendations = <<>> /\ pc = "off"
    /\ count = 0 /\ eligible_products = <<>> /\ idx = 0
    /\ recommendation_records = <<>> /\ calls = <<>> /\ result = <<>>

RecInit ==
    /\ user \in RecUsers \cup {NoUser}
    /\ catalog \in Catalogs
    /\ recommendations = <<>>
    /\ pc = "idle"
    /\ count = 0
    /\ eligible_products = <<>>
    /\ idx = 0
    /\ recommendation_records = <<>>
    /\ calls = <<>>
    /\ result = <<>>

\* generate_recommendations up to its first advisor call (lines 34-90).
GenerateStart(c) ==
    /\ pc = "idle"
    /\ count' = c
    /\ recommendation_records' = <<>>
    /\ calls' = <<>>
    /\ IF user = NoUser \/ get_products(catalog) = <<>>
       THEN /\ pc' = "done"
            /\ result' = <<>>
            /\ eligible_products' = <<>>
            /\ idx' = 0
       ELSE LET ranked == RankedCandidates(catalog, user, c)
            IN /\ eligible_products' = ranked
               /\ idx' = 1
               /\ IF LoopContinues(<<>>, c, 1, ranked)
                  THEN pc' = "loop" /\ result' = <<>>
                  ELSE pc' = "done" /\ result' = <<>>
    /\ UNCHANGED <<user, catalog, recommendations, s_vars, i_vars, a_vars, n_vars>>

\* One loop iteration whose advisor call returns `score` (lines 92-143), and
\* the return of the list when the loop ends with it.
AdvisorReturns(score) ==
    /\ pc = "loop"
    /\ LET product == eligible_products[idx]
           rec == NewRecommendation(product, score, Len(recommendations) + 1)
           records == IF Accepted(score)
                      THEN Append(recommendation_records, rec)
                      ELSE recommendation_records
       IN /\ calls' = Append(calls, [product_id |-> product.product_id,
                                     raised |-> FALSE, score |-> score])
          /\ recommendations' = IF Accepted(score)
                                THEN Append(recommendations, rec)
                                ELSE recommendations
          /\ recommendation_records' = records
          /\ idx' = idx + 1
          /\ IF LoopContinues(records, count, idx + 1, eligible_products)
             THEN pc' = "loop" /\ result' = result
             ELSE pc' = "done" /\ result' = records
    /\ UNCHANGED <<user, catalog, count, eligible_products, s_vars, i_vars, a_vars, n_vars>>

\* One loop iteration whose advisor call raises (lines 145-147).
AdvisorRaises ==
    /\ pc = "loop"
    /\ calls' = Append(calls, [product_id |-> eligible_products[idx].product_id,
                               raised |-> TRUE, score |-> 0])
    /\ idx' = idx + 1
    /\ IF ContinueAfterFailure(recommendation_records, count, idx + 1, eligible_products)
       THEN pc' = "loop" /\ result' = result
       ELSE pc' = "done" /\ result' = recommendation_records
    /\ UNCHANGED <<user, catalog, count, eligible_products, recommendations,
                   recommendation_records, s_vars, i_vars, a_vars, n_vars>>


\* ------------------------------------------------------------------------
\* Insight pipeline: InsightsService.generate_user_insights for one user.
\* Each task is one call; the advisor call is its suspension point.
\* ------------------------------------------------------------------------
Tasks == {"t1", "t2"}

MaxInsights == 10
InsightTTL == 30
MaxRefresh == 2
TickDays == 15
MaxClock == 45

\* Numbers of insights in one advisor answer.
InsightCounts == {0, 5, 7, 12}

Insight(id, created, expires, read) ==
    [insight_id |-> id, created_at |-> created, expires_at |-> expires,
     is_read |-> read, is_acted_upon |-> "none"]

\* Collections a user document starts with (insert_dummy_users: created up to
\* 30 days ago, expiring 1 to 30 days from now).
SeedInsights ==
    { <<>>,
      << Insight(101, -5, 15, FALSE) >>,
      << Insight(101, -20, 15, TRUE), Insight(102, 0, 30, FALSE) >> }

\* The comprehension of lines 83-87: insights whose expires_at is later than t.
ActiveInsightsLax(existing, t) == SelectSeq(existing, LAMBDA x : x.expires_at >= t)

ActiveInsights(existing, t) == SelectSeq(existing, LAMBDA x : x.expires_at > t)

\* sorted(combined, key=created_at, reverse=True): descending and stable.
RECURSIVE SortedByCreated(_)
SortedByCreated(seq) ==
    IF seq = <<>> THEN <<>>
    ELSE LET m == CHOOSE i \in 1..Len(seq) :
                    /\ \A j \in 1..Len(seq) : seq[j].created_at <= seq[i].created_at
                    /\ \A j \in 1..(i - 1) : seq[j].created_at < seq[i].created_at
         IN <<seq[m]>> \o SortedByCreated(SubSeq(seq, 1, m - 1) \o SubSeq(seq, m + 1, Len(seq)))

\* Lines 93-98 with the cut dropped / with the oldest kept.
LimitOff(combined) == combined

LimitKeepsFirst(combined) ==
    IF Len(combined) > MaxInsights THEN SubSeq(combined, 1, MaxInsights) ELSE combined

\* Lines 93-98: the 10 most recently created when there are more than 10.
LimitToMostRecent(combined) ==
    IF Len(combined) > MaxInsights
    THEN SubSeq(SortedByCreated(combined), 1, MaxInsights)
    ELSE combined

\* Lines 61-74: the advisor's items with a fresh id, created now, 30 days to live.
ProcessedInsights(n, first_id, t) ==
    [k \in 1..n |-> Insight(first_id + k, t, t + InsightTTL, FALSE)]

\* Lines 79-98: the collection written back.
CombinedInsights(existing, processed, t) ==
    LimitToMostRecent(ActiveInsights(existing, t) \o processed)

NoWrite == [wrote |-> FALSE, task |-> "", before |-> <<>>, loaded |-> <<>>,
            new |-> <<>>, at |-> 0, after |-> <<>>]

InsIdle ==
    /\ insights = <<>> /\ now = 0 /\ next_id = 0
    /\ ipc = [t \in Tasks |-> "off"] /\ isnap = [t \in Tasks |-> <<>>]
    /\ ireturned = [t \in Tasks |-> "none"] /\ lastw = NoWrite /\ nrefresh = 0

InsInit ==
    /\ insights \in SeedInsights
    /\ now = 0
    /\ next_id = 0
    /\ ipc = [t \in Tasks |-> "idle"]
    /\ isnap = [t \in Tasks |-> <<>>]
    /\ ireturned = [t \in Tasks |-> "none"]
    /\ lastw = NoWrite
    /\ nrefresh = 0

\* Lines 32-52: the profile is loaded, the 90-day window is queried; without
\* transactions the fallback insights are returned, otherwise the advisor is
\* called with the loaded profile in hand.
RefreshStart(t, has_transactions) ==
    /\ ipc[t] = "idle"
    /\ nrefresh < MaxRefresh
    /\ nrefresh' = nrefresh + 1
    /\ IF has_transactions
       THEN /\ ipc' = [ipc EXCEPT ![t] = "awaiting"]
            /\ isnap' = [isnap EXCEPT ![t] = insights]
            /\ ireturned' = [ireturned EXCEPT ![t] = "none"]
       ELSE /\ ipc' = ipc
            /\ isnap' = isnap
            /\ ireturned' = [ireturned EXCEPT ![t] = "fallback"]
    /\ UNCHANGED <<insights, now, next_id, lastw, s_vars, r_vars, a_vars, n_vars>>

\* Lines 52-103: the advisor answers with n insights; an empty answer gives
\* the fallback, otherwise the merged collection is written to the profile.
AdvisorInsights(t, n) ==
    /\ ipc[t] = "awaiting"
    /\ ipc' = [ipc EXCEPT ![t] = "idle"]
    /\ isnap' = [isnap EXCEPT ![t] = <<>>]
    /\ IF n = 0
       THEN /\ ireturned' = [ireturned EXCEPT ![t] = "fallback"]
            /\ UNCHANGED <<insights, next_id, lastw>>
       ELSE LET processed == ProcessedInsights(n, next_id, now)
                combined == CombinedInsights(isnap[t], processed, now)
            IN /\ insights' = combined
               /\ next_id' = next_id + n
               /\ lastw' = [wrote |-> TRUE, task |-> t, before |-> insights,
                            loaded |-> isnap[t], new |-> processed, at |-> now,
                            after |-> combined]
               /\ ireturned' = [ireturned EXCEPT ![t] = "processed"]
    /\ UNCHANGED <<now, nrefresh, s_vars, r_vars, a_vars, n_vars>>

\* Lines 105-107: the advisor call raises; the fallback insights are returned.
AdvisorInsightsRaises(t) ==
    /\ ipc[t] = "awaiting"
    /\ ipc' = [ipc EXCEPT ![t] = "idle"]
    /\ isnap' = [isnap EXCEPT ![t] = <<>>]
    /\ ireturned' = [ireturned EXCEPT ![t] = "fallback"]
    /\ UNCHANGED <<insights, now, next_id, lastw, nrefresh, s_vars, r_vars, a_vars, n_vars>>

\* datetime.now() moves on.
Tick ==
    /\ now + TickDays <= MaxClock
    /\ now' = now + TickDays
    /\ UNCHANGED <<insights, next_id, ipc, isnap, ireturned, lastw, nrefresh,
                   s_vars, r_vars, a_vars, n_vars>>

AnomIdle ==
    /\ transactions = [expense |-> 0, income |-> 0] /\ anomalies = <<>>
    /\ apc = "off" /\ advisor_calls = 0 /\ aresult = 0

\* ---- specification of the scorer and the filter
ExpIdle ==
    /\ ewindow = <<>> /\ predicted_expenses = <<>> /\ epc = "off"
    /\ recurring_data = {} /\ predictions = <<>> /\ eresult = <<>>
    /\ eprevious = <<>>

GenIdle == vgenerated = <<>> /\ vstored = <<>> /\ vpc = "off"

NoOutcome == [raised |-> FALSE, score |-> 0, value |-> ""]
NoRemote == [call |-> "", text |-> "", score_call |-> "", score_text |-> <<>>]

AdapterIdle ==
    /\ g_method = "" /\ g_enough = FALSE /\ g_remote = NoRemote
    /\ g_phase = "off" /\ g_outcome = NoOutcome

NoOp == [op |-> "", id |-> 0, existed |-> FALSE]

StoreIdle == rf_id = 0 /\ st_result = FALSE /\ st_last = NoOp /\ st_ops = 0

NoToggle == [op |-> "", id |-> 0, arg |-> "", found |-> FALSE, repeated |-> FALSE]

TogglesIdle ==
    user_updated_at = 0 /\ u_last = NoToggle /\ u_result = "" /\ u_ops = 0

CompareIdle ==
    /\ c_ids = <<>> /\ c_user_found = FALSE /\ c_pc = "off"
    /\ c_result = "" /\ c_compared = <<>>

NoJobResult == [error |-> FALSE, users_processed |-> Absent]

JobIdle ==
    /\ j_users = <<>> /\ j_pc = "off" /\ j_invoked = <<>>
    /\ j_result = NoJobResult

NoReturn == [raised |-> FALSE, kind |-> "", list |-> <<>>]

CallIdle ==
    /\ k_fail = "" /\ k_has_tx = FALSE /\ k_no_fund = FALSE /\ k_pc = "off"
    /\ k_loaded = <<>> /\ k_outcome = NoReturn

LaterIdle == CompareIdle /\ JobIdle /\ CallIdle

NewIdle == ExpIdle /\ GenIdle /\ AdapterIdle /\ StoreIdle /\ TogglesIdle /\ LaterIdle

ScorerSpecInit == ScorerInit /\ RecIdle /\ InsIdle /\ AnomIdle /\ NewIdle

ScorerNext == ApplyScore \/ ApplyFilter

SpecScorer == ScorerSpecInit /\ [][ScorerNext]_vars

\* ---- specification of the recommendation orchestrator
Init == RecInit /\ ScorerIdle /\ InsIdle /\ AnomIdle /\ NewIdle

Next ==
    \/ \E c \in 1..MaxCount : GenerateStart(c)
    \/ \E score \in AdvisorScores : AdvisorReturns(score)
    \/ AdvisorRaises

Spec == Init /\ [][Next]_vars

\* ------------------------------------------------------------------------
\* Properties of the orchestrator
\* ------------------------------------------------------------------------
SeqIds(seq) == [k \in 1..Len(seq) |-> seq[k].product_id]

CallAccepted(c) == ~c.raised /\ c.score >= 60

AcceptedCalls == SelectSeq(calls, CallAccepted)

Forwarded == SubSeq(eligible_products, 1, Min(2 * count, Len(eligible_products)))

IsPrefix(a, b) == Len(a) <= Len(b) /\ \A k \in 1..Len(a) : a[k] = b[k]

Generated == pc = "done" /\ user # NoUser /\ get_products(catalog) # <<>>

\* C1: every recommendation that generate_recommendations hands to
\* create_recommendation has an advisor score of at least 60, and no candidate
\* whose advisor call returned a score below 60 is in the store.
C1_NoLowScorePersisted ==
    /\ \A k \in 1..Len(recommendations) : recommendations[k].score >= 60
    /\ \A k \in 1..Len(calls) :
          (~calls[k].raised /\ calls[k].score < 60) =>
              \A j \in 1..Len(recommendations) :
                  recommendations[j].product_id # calls[k].product_id
    /\ Len(recommendations) = Len(AcceptedCalls)

C1_Witness ==
    /\ pc = "done"
    /\ \E k \in 1..Len(calls) : ~calls[k].raised /\ calls[k].score = 45
    /\ \E k \in 1..Len(calls) : ~calls[k].raised /\ calls[k].score = 59
    /\ Len(recommendations) >= 1

\* C2: the returned list is exactly the candidates, in the order in which
\* they were forwarded, whose advisor call returned a score >= 60, cut at
\* count: a skipped candidate does not use up one of the count places, so the
\* list is shorter than count only when all forwarded candidates were tried.
C2_FirstCountAccepted ==
    Generated =>
        /\ SeqIds(result) = SeqIds(AcceptedCalls)
        /\ result = recommendations
        /\ Len(result) <= count
        /\ IsPrefix(SeqIds(calls), SeqIds(Forwarded))
        /\ (Len(result) < count => Len(calls) = Len(Forwarded))
        /\ (Len(result) = count => CallAccepted(calls[Len(calls)]))

C2_Witness ==
    /\ Generated
    /\ count = 2
    /\ Len(result) = 2
    /\ Len(calls) = 3
    /\ ~calls[1].raised /\ calls[1].score = 45

\* C3: an advisor call that raises only skips its candidate: for a user that
\* exists the call still ends with the list of the recommendations accepted
\* from the other candidates, and it ends short of count only when every
\* forwarded candidate was tried.
C3_FailureSkipsCandidate ==
    (Generated /\ \E k \in 1..Len(calls) : calls[k].raised) =>
        /\ SeqIds(result) = SeqIds(AcceptedCalls)
        /\ \A k \in 1..Len(calls) :
              calls[k].raised =>
                  \A j \in 1..Len(result) : result[j].product_id # calls[k].product_id
        /\ (Len(result) = count \/ Len(calls) = Len(Forwarded))

C3_Witness ==
    /\ Generated
    /\ Len(calls) >= 2
    /\ calls[1].raised
    /\ Len(result) >= 1

C3_WitnessNone ==
    /\ Generated
    /\ \A k \in 1..Len(calls) : calls[k].raised
    /\ Len(calls) = 3
    /\ result = <<>>

\* ---- ranking, stated without the sort
Candidates ==
    LET filtered == get_products_by_eligibility(catalog, user)
    IN IF filtered = <<>> THEN get_products(catalog) ELSE filtered

PosOf(pid) == CHOOSE i \in 1..Len(Candidates) : Candidates[i].product_id = pid

\* Number of candidates ranked before candidate i: a higher heuristic score,
\* or the same score and an earlier place in the catalog.
Rank(i) ==
    Cardinality({ j \in 1..Len(Candidates) :
        \/ basic_eligibility_score(Candidates[j], user)
             > basic_eligibility_score(Candidates[i], user)
        \/ /\ basic_eligibility_score(Candidates[j], user)
                = basic_eligibility_score(Candidates[i], user)
           /\ j < i })

CallsAreCandidates ==
    \A k \in 1..Len(calls) :
        \E i \in 1..Len(Candidates) : Candidates[i].product_id = calls[k].product_id

CallsInRankedOrder == \A k \in 1..Len(calls) : Rank(PosOf(calls[k].product_id)) = k - 1

CallsInCatalogOrder == \A k \in 1..Len(calls) : PosOf(calls[k].product_id) = k

CallVolumeBounded ==
    /\ Len(calls) <= 2 * count
    /\ \A k \in 1..Len(calls) :
          Len(SelectSeq(SubSeq(calls, 1, k - 1), CallAccepted)) < count

Generating == pc \in {"loop", "done"} /\ user # NoUser /\ get_products(catalog) # <<>>

UserComplete(u) ==
    /\ u.monthly_income # Absent /\ u.credit_score # Absent
    /\ u.risk_profile # AbsentStr /\ u.age # Absent

\* Every criterion that is set on the product is satisfied by the user.
SetCriteriaSatisfied(p, u) ==
    /\ (p.min_income # Absent => u.monthly_income >= p.min_income)
    /\ (p.min_credit_score # Absent => u.credit_score >= p.min_credit_score)
    /\ (p.risk_level # AbsentStr => u.risk_profile = p.risk_level)
    /\ (p.target_age_min # Absent => u.age >= p.target_age_min)
    /\ (p.target_age_max # Absent => u.age <= p.target_age_max)

\* C6: the eligibility filter returns an active product iff every criterion
\* that is set on it is satisfied by the user; a criterion that is absent on
\* the product never excludes it.
C6_FilterIffSetCriteria ==
    (s_phase = "filtered" /\ UserComplete(s_user) /\ s_product.is_active) =>
        (s_eligible <=> SetCriteriaSatisfied(s_product, s_user))

\* The part of C6 that the filter does keep: it returns no inactive product
\* and no product with a set criterion that the user fails.
C6_FilterSound ==
    (s_phase = "filtered" /\ UserComplete(s_user) /\ s_eligible) =>
        (s_product.is_active /\ SetCriteriaSatisfied(s_product, s_user))

AllFourSet(p) ==
    /\ p.min_income # Absent /\ p.min_credit_score # Absent
    /\ p.risk_level # AbsentStr
    /\ p.target_age_min # Absent /\ p.target_age_max # Absent

HasAlignedGoal(p, u) ==
    \E i \in 1..Len(u.financial_goals) :
        GoalAligned(Lower(p.category), Lower(u.financial_goals[i]))

Pts(cond, weight) == IF cond THEN weight ELSE 0

\* The sum of C7, each rule read as the claim words it.
ClaimedScore(p, u) ==
      Pts(u.monthly_income >= p.min_income, 1)
    + Pts(u.credit_score >= p.min_credit_score, 1)
    + Pts(u.risk_profile = p.risk_level, 2)
    + Pts(u.age >= p.target_age_min /\ u.age <= p.target_age_max, 1)
    + Pts(p.category \in u.preferred_categories, 3)
    + Pts(HasAlignedGoal(p, u), 2)

\* C7 as stated, on products with all four criteria set and users with all
\* attributes: the score is the claimed sum, at least 5 when the four criteria
\* are satisfied, and never above 10.
C7_Original ==
    (s_phase = "scored" /\ AllFourSet(s_product) /\ UserComplete(s_user)) =>
        /\ s_score = ClaimedScore(s_product, s_user)
        /\ (SetCriteriaSatisfied(s_product, s_user) => s_score >= 5)
        /\ s_score <= 10

\* The rules as the scorer applies them: an income or credit-score threshold
\* counts only when it is positive, the risk levels are compared without
\* regard to case, and a missing age bound is 0 or 999.
IncomeRule(p, u) ==
    p.min_income # Absent /\ p.min_income > 0
        /\ (IF u.monthly_income = Absent THEN 0 ELSE u.monthly_income) >= p.min_income

CreditRule(p, u) ==
    p.min_credit_score # Absent /\ p.min_credit_score > 0
        /\ (IF u.credit_score = Absent THEN 0 ELSE u.credit_score) >= p.min_credit_score

RiskRule(p, u) ==
    p.risk_level \notin {AbsentStr, ""} /\ u.risk_profile # AbsentStr
        /\ Lower(u.risk_profile) = Lower(p.risk_level)

AgeRule(p, u) ==
    LET a == IF u.age = Absent THEN 0 ELSE u.age
    IN /\ (p.target_age_min = Absent \/ a >= p.target_age_min)
       /\ (p.target_age_max = Absent => a <= 999)
       /\ (p.target_age_max # Absent => a <= p.target_age_max)

\* C7 amended: +1 for a positive min_income that the income reaches, +1 for a
\* positive min_credit_score that the credit score reaches, +2 for a risk
\* level equal up to case, +1 for an age in the range (a missing bound is 0 or
\* 999), +3 for a preferred category, +2 once for an aligned goal; a product
\* whose four criteria are set with positive thresholds and satisfied scores
\* at least 5, and no score exceeds 10.
C7_Amended ==
    s_phase = "scored" =>
        /\ s_score = Pts(IncomeRule(s_product, s_user), 1)
                   + Pts(CreditRule(s_product, s_user), 1)
                   + Pts(RiskRule(s_product, s_user), 2)
                   + Pts(AgeRule(s_product, s_user), 1)
                   + Pts(s_product.category \in s_user.preferred_categories, 3)
                   + Pts(HasAlignedGoal(s_product, s_user), 2)
        /\ ((AllFourSet(s_product) /\ UserComplete(s_user)
               /\ s_product.min_income > 0 /\ s_product.min_credit_score > 0
               /\ SetCriteriaSatisfied(s_product, s_user)) => s_score >= 5)
        /\ s_score <= 10

\* The scenario of the specification (income 80000, credit 750, "moderate",
\* age 30 against 60000 / 700 / "moderate" / 25-45) with two aligned goals.
C7_Witness ==
    /\ s_phase = "scored"
    /\ s_product = Product("p", "savings", TRUE, 60000, 700, "moderate", 25, 45)
    /\ s_user = User(80000, 750, "moderate", 30, {"savings"},
                     <<"emergency_fund", "savings">>)
    /\ s_score = 10

\* A threshold of 0 earns no point: all four criteria set and satisfied, score 4.
C7_WitnessZeroThreshold ==
    /\ s_phase = "scored"
    /\ s_product = Product("p", "loans", TRUE, 0, 700, "moderate", 25, 45)
    /\ s_user = User(80000, 750, "moderate", 30, {}, <<>>)
    /\ s_score = 4

\* ------------------------------------------------------------------------
\* Specification of the insight pipeline and its properties
\* ------------------------------------------------------------------------
InsSpecInit == InsInit /\ ScorerIdle /\ RecIdle /\ AnomIdle /\ NewIdle

InsNext ==
    \/ \E t \in Tasks, has_transactions \in BOOLEAN : RefreshStart(t, has_transactions)
    \/ \E t \in Tasks, n \in InsightCounts : AdvisorInsights(t, n)
    \/ \E t \in Tasks : AdvisorInsightsRaises(t)
    \/ Tick

SpecInsights == InsSpecInit /\ [][InsNext]_vars

\* C4: whatever the advisor returns in each refresh, the stored insight
\* collection of the user never has more than 10 entries.
C4_AtMostTenInsights == Len(insights) <= 10

\* 5 stored and active, 7 new: 10 stored.
C4_Witness ==
    /\ lastw.wrote
    /\ Len(ActiveInsights(lastw.loaded, lastw.at)) = 5
    /\ Len(lastw.new) = 7
    /\ Len(insights) = 10

Elems(seq) == { seq[k] : k \in 1..Len(seq) }

\* `after` is exactly the (up to) 10 most recently created of the entries of
\* `previous` that are not expired at time t together with `new`.
IsMostRecentMerge(previous, new, t, after) ==
    LET candidates == Elems(ActiveInsights(previous, t)) \cup Elems(new)
    IN /\ Elems(after) \subseteq candidates
       /\ Cardinality(Elems(after)) = Len(after)
       /\ Len(after) = Min(10, Cardinality(candidates))
       /\ \A x \in candidates \ Elems(after), y \in Elems(after) :
              y.created_at >= x.created_at
       /\ \A y \in Elems(after) : y.expires_at > t

\* C5: after a successful refresh the stored collection is exactly the (up
\* to) 10 entries with the greatest created_at among the insights stored
\* before its write that have not expired together with the new insights.
C5_MergeOfStored ==
    lastw.wrote => IsMostRecentMerge(lastw.before, lastw.new, lastw.at, lastw.after)

\* What the merge does guarantee: the same, of the collection the refresh
\* loaded with the profile before it called the advisor.
C5_MergeOfLoaded ==
    lastw.wrote => IsMostRecentMerge(lastw.loaded, lastw.new, lastw.at, lastw.after)

C5_WitnessScenario ==
    /\ lastw.wrote
    /\ lastw.loaded = lastw.before
    /\ Len(ActiveInsights(lastw.before, lastw.at)) = 5
    /\ Len(lastw.new) = 7
    /\ Len(lastw.after) = 10

\* C9: overlapping refreshes of one user are serialized: the load-merge-write
\* of one never interleaves with that of another, so every write stores what
\* the merge of the collection stored just before it gives, and the collection
\* after two refreshes is that of running them one after the other.
C9_RefreshesSerialized ==
    lastw.wrote =>
        lastw.after = CombinedInsights(lastw.before, lastw.new, lastw.at)

\* The interleaving itself: two refreshes between their load and their write.
C9_OneRefreshInFlight == Cardinality({ t \in Tasks : ipc[t] = "awaiting" }) <= 1

\* ------------------------------------------------------------------------
\* Anomaly pipeline: TransactionIntelligenceService.detect_anomalies.
\* The 90-day window is kept as the numbers of its expense (amount < 0) and
\* income transactions: the code looks at its length and at the signs only.
\* ------------------------------------------------------------------------
MinTransactions == 10
MaxTx == 11

\* Numbers of anomalies in one advisor answer.
AnomalyCounts == {0, 1, 3}

WindowLen(w) == w.expense + w.income

\* "if not transactions or len(transactions) < 10" (service, line 41)
NotEnoughData(w) == WindowLen(w) = 0 \/ WindowLen(w) < MinTransactions

\* "if len(transactions) < 10" (adapter, line 289): no remote call below it.
AdapterReturnsEarly(w) == WindowLen(w) < MinTransactions

\* A stored anomaly that is not acknowledged.
Anomaly(id) == [anomaly_id |-> id, detection_date |-> 0, is_acknowledged |-> FALSE]

\* An anomaly of the advisor's answer: with or without an id and a date of
\* its own, acknowledged or not as the answer has it.
RawAnomalies ==
    { [anomaly_id |-> Absent, detection_date |-> Absent, is_acknowledged |-> FALSE],
      [anomaly_id |-> 9, detection_date |-> 2, is_acknowledged |-> TRUE] }

\* The advisor's answers: 0, 1 or 3 anomalies.
AdvisorAnomalies == UNION { [1..n -> RawAnomalies] : n \in AnomalyCounts }

\* Lines 57-64: the id "ano<len+1>" and the date of detection when the answer
\* gave none, is_acknowledged = False.
Detected(raw, n, t) ==
    [anomaly_id |-> Get(raw.anomaly_id, n),
     detection_date |-> Get(raw.detection_date, t),
     is_acknowledged |-> FALSE]

\* The anomalies of the answer alone, in place of the stored ones.
LatestAnomalies(existing, raw) ==
    [i \in 1..Len(raw) |-> Detected(raw[i], i, now)]

\* Lines 55-66: each new anomaly is appended to the existing ones.
RECURSIVE AppendAnomalies(_, _)
AppendAnomalies(existing, raw) ==
    IF raw = <<>> THEN existing
    ELSE AppendAnomalies(
             Append(existing, Detected(Head(raw), Len(existing) + 1, now)),
             Tail(raw))

AnomInit ==
    /\ transactions \in [expense : 0..MaxTx, income : 0..MaxTx]
    /\ anomalies \in { <<>>,
                       << [anomaly_id |-> 1, detection_date |-> 0,
                           is_acknowledged |-> TRUE] >> }
    /\ apc = "idle"
    /\ advisor_calls = 0
    /\ aresult = 0

\* Lines 32-47 and the adapter up to its remote call.
DetectStart ==
    /\ apc = "idle"
    /\ IF NotEnoughData(transactions) \/ AdapterReturnsEarly(transactions)
       THEN /\ apc' = "done"
            /\ UNCHANGED advisor_calls
       ELSE /\ apc' = "awaiting"
            /\ advisor_calls' = advisor_calls + 1
    /\ aresult' = 0
    /\ UNCHANGED <<transactions, anomalies, s_vars, r_vars, i_vars, n_vars>>

\* The remote answer parses to the anomalies raw (none when it does not
\* parse); lines 49-71 append them to the user's collection as it is stored
\* now, after the answer.
AnomalyAdvisorReturns(raw) ==
    /\ apc = "awaiting"
    /\ apc' = "done"
    /\ aresult' = Len(raw)
    /\ anomalies' = AppendAnomalies(anomalies, raw)
    /\ UNCHANGED <<transactions, advisor_calls, s_vars, r_vars, i_vars, n_vars>>

\* The remote call raises: lines 73-75 return [].
AnomalyAdvisorRaises ==
    /\ apc = "awaiting"
    /\ apc' = "done"
    /\ aresult' = 0
    /\ UNCHANGED <<transactions, anomalies, advisor_calls, s_vars, r_vars, i_vars, n_vars>>

AnomSpecInit == AnomInit /\ ScorerIdle /\ RecIdle /\ InsIdle /\ NewIdle

AnomNext ==
    \/ DetectStart
    \/ \E raw \in AdvisorAnomalies : AnomalyAdvisorReturns(raw)
    \/ AnomalyAdvisorRaises

SpecAnomaly == AnomSpecInit /\ [][AnomNext]_vars

\* C10: with fewer than 10 expense transactions in the window, whatever the
\* number of income transactions, anomaly detection issues no advisor call
\* and returns [].
C10_NoCallBelowTenExpenses ==
    transactions.expense < 10 =>
        /\ advisor_calls = 0
        /\ (apc = "done" => aresult = 0)

\* What the code guarantees: the same for fewer than 10 transactions of
\* either sign.
C10_NoCallBelowTenTransactions ==
    (transactions.expense + transactions.income < 10) =>
        /\ advisor_calls = 0
        /\ apc # "awaiting"
        /\ (apc = "done" => aresult = 0)



\* ------------------------------------------------------------------------
\* Predicted-expense pipeline: TransactionIntelligenceService.predict_expenses
\* and GenAIService.generate_predictive_expenses.
\*
\* A string is kept as the sequence of its pieces between underscores, so
\* f"{category}_{description}" is the concatenation of the two sequences and
\* key.split('_', 1) gives the first piece and the rest.  The 180-day window
\* is kept as the number of transactions of each kind; every transaction of
\* the window has a timestamp (the window query selects on it).
\* ------------------------------------------------------------------------
MaxOcc == 2
MaxItems == 2

TxKinds ==
    << [category |-> <<"food", "out">>, description |-> <<"lunch">>, expense |-> TRUE],
       [category |-> <<"food">>, description |-> <<"out", "lunch">>, expense |-> TRUE],
       [category |-> <<"Entertainment">>, description |-> <<"Netflix Payment">>,
        expense |-> TRUE],
       [category |-> <<"Entertainment">>, description |-> <<"Netflix Payment">>,
        expense |-> FALSE],
       [category |-> <<"Rent">>, description |-> <<"Apartment Complex Payment">>,
        expense |-> TRUE] >>

\* Numbers of rent payments in the window.
RentCounts == {0, 8, 10}

Windows ==
    { w \in [1..Len(TxKinds) -> 0..10] :
        /\ \A i \in 1..4 : w[i] <= MaxOcc
        /\ w[5] \in RentCounts }

RECURSIVE SumOver(_, _, _)
SumOver(w, pick(_), i) ==
    IF i = 0 THEN 0
    ELSE (IF pick(i) THEN w[i] ELSE 0) + SumOver(w, pick, i - 1)

ExpenseWindowLen(w) == LET all(i) == TRUE IN SumOver(w, all, Len(TxKinds))

\* key = f"{category}_{description}" (line 535)
GroupKey(k) == k.category \o k.description

\* date_amounts: the keys of the expense transactions and how many
\* transactions each key collected (lines 514-543).
date_amounts_keys(w) ==
    { GroupKey(TxKinds[i]) : i \in { j \in 1..Len(TxKinds) :
                                       TxKinds[j].expense /\ w[j] > 0 } }

date_amounts_len(w, key) ==
    LET pick(i) == TxKinds[i].expense /\ GroupKey(TxKinds[i]) = key
    IN SumOver(w, pick, Len(TxKinds))

\* Lines 546-560: the groups written into the prompt.
RecurringData(w) ==
    { [category |-> <<Head(key)>>, description |-> Tail(key),
       occurrences |-> date_amounts_len(w, key)] :
        key \in { k \in date_amounts_keys(w) : ~(date_amounts_len(w, k) < 2) } }

\* ---- the predictor's answer
NotNumeric == -2
InvalidDate == -3

\* datetime.fromisoformat on the due_date strings that occur below.
FromIsoFormat(s) ==
    CASE s = "2026-12-01" -> 27
      [] s = "2026-12-15" -> 41
      [] OTHER -> InvalidDate

\* float(x): the number, or a ValueError for what is no number.
FloatRaises(x) == x = NotNumeric

RawPrediction(d, a, due, c) ==
    [description |-> d, amount |-> a, due_date |-> due, confidence |-> c]

\* Confidence is counted in hundredths.
RawItems ==
    { RawPrediction("Netflix", 15, "2026-12-01", 90),
      RawPrediction("Rent", 1200, "2026-12-15", 30),
      RawPrediction("Gym", 40, "2026-12-15", Absent),
      RawPrediction(AbsentStr, 15, "2026-12-01", 90),
      RawPrediction("Lunch", 12, "next week", 90),
      RawPrediction("Lunch", NotNumeric, "2026-12-01", 90),
      RawPrediction("Lunch", 12, AbsentStr, NotNumeric) }

RawResponses == UNION { [1..n -> RawItems] : n \in 0..MaxItems }

\* Line 610: the three keys every item must have.
HasRequiredKeys(pred) ==
    ~(pred.description = AbsentStr \/ pred.amount = Absent \/ pred.due_date = AbsentStr)

\* Lines 610-618: items the loop passes over with "continue".
Skipped(pred) ==
    \/ ~HasRequiredKeys(pred)
    \/ FromIsoFormat(pred.due_date) = InvalidDate

\* Lines 623 and 626: a conversion that raises inside the loop.
ConversionRaises(pred) ==
    ~Skipped(pred) /\ (FloatRaises(pred.amount) \/ FloatRaises(pred.confidence))

\* Lines 620-628.
Prediction(i, pred) ==
    [expense_id |-> i, description |-> pred.description, amount |-> pred.amount,
     due_date |-> FromIsoFormat(pred.due_date),
     confidence |-> Get(pred.confidence, 70)]

RECURSIVE ProcessedFrom(_, _)
ProcessedFrom(raw, i) ==
    IF i > Len(raw) THEN <<>>
    ELSE IF Skipped(raw[i]) THEN ProcessedFrom(raw, i + 1)
    ELSE <<Prediction(i, raw[i])>> \o ProcessedFrom(raw, i + 1)

\* Lines 607-636: the processed list, or [] when a conversion raised.
ProcessedPredictions(raw) ==
    IF \E i \in 1..Len(raw) : ConversionRaises(raw[i])
    THEN <<>>
    ELSE ProcessedFrom(raw, 1)

\* Lines 105-109 of predict_expenses: the collection is written when the
\* produced list is not empty.
StoredAfterPredict(stored, produced) ==
    IF produced # <<>> THEN produced ELSE stored

StoredPredictions ==
    { <<>>,
      << [expense_id |-> 1, description |-> "Rent", amount |-> 1200,
          due_date |-> 10, confidence |-> 80] >> }

ExpInit ==
    /\ ewindow \in Windows
    /\ predicted_expenses \in StoredPredictions
    /\ epc = "idle"
    /\ recurring_data = {}
    /\ predictions = <<>>
    /\ eresult = <<>>
    /\ eprevious = <<>>

\* predict_expenses up to the remote call (service lines 87-102, adapter
\* lines 510-588).
PredictStart ==
    /\ epc = "idle"
    /\ eprevious' = predicted_expenses
    /\ IF ExpenseWindowLen(ewindow) = 0 \/ ExpenseWindowLen(ewindow) < 10
       THEN epc' = "done" /\ UNCHANGED recurring_data
       ELSE epc' = "awaiting" /\ recurring_data' = RecurringData(ewindow)
    /\ UNCHANGED <<ewindow, predicted_expenses, predictions, eresult,
                   s_vars, r_vars, i_vars, a_vars, v_vars, g_vars, st_vars, u_vars, l_vars>>

\* The remote answer is a JSON list (adapter lines 591-632, service 104-111).
PredictorReturns(raw) ==
    /\ epc = "awaiting"
    /\ epc' = "done"
    /\ predictions' = raw
    /\ eresult' = ProcessedPredictions(raw)
    /\ predicted_expenses' =
           StoredAfterPredict(predicted_expenses, ProcessedPredictions(raw))
    /\ UNCHANGED <<ewindow, recurring_data, eprevious, s_vars, r_vars, i_vars, a_vars, v_vars, g_vars, st_vars, u_vars, l_vars>>

\* The remote call raises, or its answer is no JSON list: [] is returned
\* (adapter lines 634-636, service lines 113-115).
PredictorFails ==
    /\ epc = "awaiting"
    /\ epc' = "failed"
    /\ eresult' = <<>>
    /\ UNCHANGED <<ewindow, predicted_expenses, recurring_data, predictions,
                   eprevious, s_vars, r_vars, i_vars, a_vars, v_vars, g_vars, st_vars, u_vars, l_vars>>

ExpSpecInit ==
    ExpInit /\ ScorerIdle /\ RecIdle /\ InsIdle /\ AnomIdle /\ GenIdle /\ AdapterIdle
    /\ StoreIdle /\ TogglesIdle /\ LaterIdle

ExpNext ==
    \/ PredictStart
    \/ \E raw \in RawResponses : PredictorReturns(raw)
    \/ PredictorFails

SpecExpenses == ExpSpecInit /\ [][ExpNext]_vars

\* ---- properties of the predicted-expense pipeline
PairCount(w, c, d) ==
    LET pick(i) == /\ TxKinds[i].expense
                   /\ TxKinds[i].category = c
                   /\ TxKinds[i].description = d
    IN SumOver(w, pick, Len(TxKinds))

RecurringPairs(w) ==
    { [category |-> TxKinds[i].category, description |-> TxKinds[i].description] :
        i \in { j \in 1..Len(TxKinds) :
                  TxKinds[j].expense
                  /\ PairCount(w, TxKinds[j].category, TxKinds[j].description) >= 2 } }

SubmittedPairs ==
    { [category |-> g.category, description |-> g.description] : g \in recurring_data }

InputSubmitted == epc \in {"awaiting", "done", "failed"} /\ ExpenseWindowLen(ewindow) >= 10

\* C11: a (category, description) group is summarized in the input handed to
\* the expense predictor iff at least 2 expense transactions of the window
\* have exactly that category and exactly that description.
C11_GroupSubmittedIffTwice ==
    InputSubmitted => SubmittedPairs = RecurringPairs(ewindow)

\* The same for windows whose categories hold no underscore: there the key
\* splits back into the pair it was built from.
C11_UnderscoreFreeCategories ==
    (InputSubmitted /\ ewindow[1] = 0 /\ ewindow[2] = 0)
        => SubmittedPairs = RecurringPairs(ewindow)

Returned(seq) == { seq[i] : i \in 1..Len(seq) }

\* C12: no predicted expense with confidence below 0.6 is returned by
\* predict_expenses or stored in predicted_expenses, whatever confidence the
\* remote capability returns.
C12_NoLowConfidencePrediction ==
    \A e \in Returned(eresult) \cup Returned(predicted_expenses) : e.confidence >= 60

\* C13: after predict_expenses completes, the stored collection equals the
\* list this refresh produced (empty or not); nothing of the previous
\* collection survives.
C13_ReplacedWholesale ==
    epc \in {"done", "failed"} => predicted_expenses = eresult

\* What the code does: a non-empty produced list replaces the collection, an
\* empty one leaves it as it was.
C13_ReplacedWhenNonEmpty ==
    epc \in {"done", "failed"} =>
        predicted_expenses = (IF eresult # <<>> THEN eresult ELSE eprevious)

WellFormed(pred) ==
    /\ pred.description # AbsentStr
    /\ pred.amount # Absent /\ pred.amount # NotNumeric
    /\ pred.due_date # AbsentStr /\ FromIsoFormat(pred.due_date) # InvalidDate
    /\ pred.confidence # NotNumeric

\* C15: when one item of the predictor's response is malformed only that item
\* is dropped: every well-formed item of the response is returned and stored.
C15_OnlyMalformedDropped ==
    epc = "done" =>
        \A i \in 1..Len(predictions) :
            WellFormed(predictions[i]) =>
                /\ \E e \in Returned(eresult) : e.expense_id = i
                /\ \E e \in Returned(predicted_expenses) : e.expense_id = i

\* The part that holds: an item without a required key or with an unparsable
\* due_date is dropped alone.
C15_SkippedItemDroppedAlone ==
    (epc = "done" /\ \A i \in 1..Len(predictions) : ~ConversionRaises(predictions[i])) =>
        \A i \in 1..Len(predictions) :
            WellFormed(predictions[i]) =>
                \E e \in Returned(predicted_expenses) : e.expense_id = i

\* ------------------------------------------------------------------------
\* Persistence of generated records: what generate_user_insights and
\* detect_anomalies store for the records of one remote answer.  A stored
\* record carries the position of the generated record it was made from.
\* ------------------------------------------------------------------------
MaxBatch == 2

\* A generated record: category, description and its level (importance of an
\* insight, severity of an anomaly), each present or missing.
GeneratedRecords ==
    [category : {AbsentStr, "spending"},
     description : {AbsentStr, "Dining is up 40%"},
     level : {AbsentStr, "high"}]

GeneratedBatches == UNION { [1..n -> GeneratedRecords] : n \in 0..MaxBatch }

\* insights_service.py lines 63-72: insight.get(key, default) for each field.
ProcessedInsight(r, i) ==
    [category |-> GetStr(r.category, "general"),
     description |-> GetStr(r.description, ""),
     level |-> GetStr(r.level, "medium"),
     from |-> i]

\* genai_services.py lines 373-381: a missing field is filled in.
CompletedAnomaly(r, i) ==
    [category |-> GetStr(r.category, "Unknown"),
     description |-> GetStr(r.description, "Unusual spending pattern detected"),
     level |-> GetStr(r.level, "medium"),
     from |-> i]

GenInit ==
    /\ vgenerated \in GeneratedBatches
    /\ vstored = <<>>
    /\ vpc = "generated"

\* generate_user_insights, lines 54-101, on the answer vgenerated.
StoreInsights ==
    /\ vpc = "generated"
    /\ vpc' = "insights stored"
    /\ vstored' = [i \in 1..Len(vgenerated) |-> ProcessedInsight(vgenerated[i], i)]
    /\ UNCHANGED <<vgenerated, s_vars, r_vars, i_vars, a_vars, e_vars, g_vars, st_vars, u_vars, l_vars>>

\* detect_anomalies, adapter lines 367-383 and service lines 49-69.
StoreAnomalies ==
    /\ vpc = "generated"
    /\ vpc' = "anomalies stored"
    /\ vstored' = [i \in 1..Len(vgenerated) |-> CompletedAnomaly(vgenerated[i], i)]
    /\ UNCHANGED <<vgenerated, s_vars, r_vars, i_vars, a_vars, e_vars, g_vars, st_vars, u_vars, l_vars>>

GenSpecInit ==
    GenInit /\ ScorerIdle /\ RecIdle /\ InsIdle /\ AnomIdle /\ ExpIdle /\ AdapterIdle
    /\ StoreIdle /\ TogglesIdle /\ LaterIdle

GenNext == StoreInsights \/ StoreAnomalies

SpecGenerated == GenSpecInit /\ [][GenNext]_vars

HasRequiredFields(r) ==
    r.category # AbsentStr /\ r.description # AbsentStr /\ r.level # AbsentStr

\* C14: no insight or anomaly is stored from a generated record that lacks a
\* required field (category, description, importance / severity); such a
\* record is rejected while the other records of the batch are stored.
C14_IncompleteRecordRejected ==
    vpc \in {"insights stored", "anomalies stored"} =>
        /\ \A e \in Returned(vstored) : HasRequiredFields(vgenerated[e.from])
        /\ \A i \in 1..Len(vgenerated) :
               HasRequiredFields(vgenerated[i]) => \E e \in Returned(vstored) : e.from = i

\* What the code does: every generated record is stored, a missing field
\* replaced by its default.
C14_EveryRecordStoredWithDefaults ==
    vpc \in {"insights stored", "anomalies stored"} =>
        /\ Len(vstored) = Len(vgenerated)
        /\ \A e \in Returned(vstored) : HasRequiredFields(e) \/ e.description = ""

\* ------------------------------------------------------------------------
\* Advisor adapter: one call of one GenAIService method.  The remote call
\* either raises or hands back a response whose .text is missing (None) or a
\* string; g_enough says whether the transactions pass the method's early
\* return.
\* ------------------------------------------------------------------------
Methods ==
    {"generate_product_recommendation", "analyze_sentiment", "detect_anomalies",
     "generate_financial_insights", "generate_predictive_expenses"}

DefaultScore == 75

\* Texts of the score answer, character by character.
ScoreTexts ==
    { <<"8", "5">>, <<"5", "9">>, <<"1", "5", "0">>, <<"h", "i", "g", "h">>,
      <<"9", "0", "/", "1", "0", "0">>, <<"-", "5">>, <<>> }

\* Texts of a JSON answer, by what json.loads makes of them.
JsonTexts == {"not json", "json object", "json list"}

CallOutcomes == {"raises", "none", "text"}

RemoteForScore ==
    { [call |-> c, text |-> "prose", score_call |-> sc, score_text |-> st] :
        c \in CallOutcomes, sc \in CallOutcomes, st \in ScoreTexts }

RemoteForJson ==
    { [call |-> c, text |-> t, score_call |-> "", score_text |-> <<>>] :
        c \in CallOutcomes, t \in JsonTexts }

Digits == {"0", "1", "2", "3", "4", "5", "6", "7", "8", "9"}

DigitValue(c) ==
    CASE c = "0" -> 0 [] c = "1" -> 1 [] c = "2" -> 2 [] c = "3" -> 3
      [] c = "4" -> 4 [] c = "5" -> 5 [] c = "6" -> 6 [] c = "7" -> 7
      [] c = "8" -> 8 [] c = "9" -> 9

\* ''.join(c for c in score_text if c.isdigit())
DigitsOf(text) == SelectSeq(text, LAMBDA c : c \in Digits)

RECURSIVE IntOf(_)
IntOf(ds) ==
    IF ds = <<>> THEN 0
    ELSE 10 * IntOf(SubSeq(ds, 1, Len(ds) - 1)) + DigitValue(ds[Len(ds)])

Max(a, b) == IF a > b THEN a ELSE b

\* The digits of the text read as a number, without the clamp of line 188.
UnclampedScore(remote) ==
    IF remote.score_call = "none" \/ DigitsOf(remote.score_text) = <<>>
    THEN DefaultScore
    ELSE IntOf(DigitsOf(remote.score_text))

\* Lines 184-192: the score, or 75 when the text is missing or holds no digit.
ParsedScore(remote) ==
    IF remote.score_call = "none" \/ DigitsOf(remote.score_text) = <<>>
    THEN DefaultScore
    ELSE Max(0, Min(IntOf(DigitsOf(remote.score_text)), 100))

Raised == [raised |-> TRUE, score |-> 0, value |-> ""]
Value(v) == [raised |-> FALSE, score |-> 0, value |-> v]

\* generate_product_recommendation, lines 160-197: two remote calls outside
\* any try, the score parsed inside one, response.text.strip() outside.
RecommendationOutcome(remote) ==
    IF remote.call = "raises" \/ remote.score_call = "raises" \/ remote.call = "none"
    THEN Raised
    ELSE [raised |-> FALSE, score |-> ParsedScore(remote), value |-> remote.text]

\* analyze_sentiment, lines 209-277.
SentimentOutcome(enough, remote) ==
    IF ~enough THEN Value("neutral/0.5/stable")
    ELSE IF remote.call = "raises" THEN Raised
    ELSE IF remote.call = "none" \/ remote.text # "json object"
         THEN Value("neutral/0.5/stable")
         ELSE Value("parsed sentiment")

\* detect_anomalies (lines 289-387) and generate_predictive_expenses
\* (lines 510-636).
ListOutcome(enough, remote) ==
    IF ~enough THEN Value("[]")
    ELSE IF remote.call = "raises" THEN Raised
    ELSE IF remote.call = "none" \/ remote.text # "json list"
         THEN Value("[]")
         ELSE Value("parsed list")

\* generate_financial_insights, lines 401-497.
InsightsOutcome(enough, remote) ==
    IF ~enough THEN Value("starter insight")
    ELSE IF remote.call = "raises" THEN Raised
    ELSE IF remote.call = "none" \/ remote.text # "json list"
         THEN Value("default insight")
         ELSE Value("parsed list")

AdapterInit ==
    /\ g_method \in Methods
    /\ g_enough \in BOOLEAN
    /\ g_remote \in IF g_method = "generate_product_recommendation"
                    THEN RemoteForScore ELSE RemoteForJson
    /\ g_phase = "called"
    /\ g_outcome = NoOutcome

Return(outcome) ==
    /\ g_phase = "called"
    /\ g_phase' = "returned"
    /\ g_outcome' = outcome
    /\ UNCHANGED <<g_method, g_enough, g_remote,
                   s_vars, r_vars, i_vars, a_vars, e_vars, v_vars, st_vars, u_vars, l_vars>>

generate_product_recommendation ==
    /\ g_method = "generate_product_recommendation"
    /\ Return(RecommendationOutcome(g_remote))

analyze_sentiment ==
    /\ g_method = "analyze_sentiment"
    /\ Return(SentimentOutcome(g_enough, g_remote))

detect_anomalies ==
    /\ g_method = "detect_anomalies"
    /\ Return(ListOutcome(g_enough, g_remote))

generate_financial_insights ==
    /\ g_method = "generate_financial_insights"
    /\ Return(InsightsOutcome(g_enough, g_remote))

generate_predictive_expenses ==
    /\ g_method = "generate_predictive_expenses"
    /\ Return(ListOutcome(g_enough, g_remote))

AdapterSpecInit ==
    AdapterInit /\ ScorerIdle /\ RecIdle /\ InsIdle /\ AnomIdle /\ ExpIdle /\ GenIdle
    /\ StoreIdle /\ TogglesIdle /\ LaterIdle

AdapterNext ==
    \/ generate_product_recommendation
    \/ analyze_sentiment
    \/ detect_anomalies
    \/ generate_financial_insights
    \/ generate_predictive_expenses

SpecAdapter == AdapterSpecInit /\ [][AdapterNext]_vars

\* The documented default of each method.
DocumentedDefault(method, outcome) ==
    CASE method = "generate_product_recommendation" -> outcome.score = 75
      [] method = "analyze_sentiment" -> outcome.value = "neutral/0.5/stable"
      [] method = "generate_financial_insights" -> outcome.value = "default insight"
      [] OTHER -> outcome.value = "[]"

RemoteCallFails == g_remote.call = "raises" \/ g_remote.score_call = "raises"

OutputUnparsable ==
    IF g_method = "generate_product_recommendation"
    THEN g_remote.score_call = "none" \/ DigitsOf(g_remote.score_text) = <<>>
    ELSE \/ g_remote.call = "none"
         \/ g_remote.text # (IF g_method = "analyze_sentiment"
                             THEN "json object" ELSE "json list")

\* C16: every adapter method is total: when the remote call fails or its
\* output cannot be parsed the method returns its documented default and
\* never raises to its caller.
C16_AdapterTotal ==
    g_phase = "returned" =>
        /\ ~g_outcome.raised
        /\ (g_enough /\ (RemoteCallFails \/ OutputUnparsable))
               => DocumentedDefault(g_method, g_outcome)

\* What the code guarantees: an answer that arrived with a text but does not
\* parse gives the default.
C16_UnparsableGivesDefault ==
    (g_phase = "returned" /\ g_enough /\ ~RemoteCallFails
        /\ g_remote.call = "text" /\ OutputUnparsable)
        => (~g_outcome.raised /\ DocumentedDefault(g_method, g_outcome))

\* ------------------------------------------------------------------------
\* Recommendation store: RecommendationOperations on the recommendations
\* collection, the legacy RecommendationService and
\* refresh_recommendation_content.  An operation that stamps a date reads
\* datetime.now(), which is later at every reading.  st_last records the
\* last operation, the id it was given and whether a record had that id;
\* st_ops counts the operations.
\* ------------------------------------------------------------------------
MaxRecs == 2
MaxOps == 4

RecIds == 1..(MaxRecs + 1)

\* Scores a content refresh gets from the advisor.
RefreshScores == {45, 75}

r_rest == <<user, catalog, pc, count, eligible_products, idx,
            recommendation_records, calls, result>>
i_rest == <<insights, next_id, ipc, isnap, ireturned, lastw, nrefresh>>
StoreFrame == <<r_rest, i_rest, s_vars, a_vars, e_vars, v_vars, g_vars, u_vars, l_vars>>

HasId(recs, id) == \E i \in 1..Len(recs) : recs[i].recommendation_id = id

\* find_one / the document update_one matches: the first with the id.
FirstWithId(recs, id) ==
    CHOOSE i \in 1..Len(recs) :
        /\ recs[i].recommendation_id = id
        /\ \A j \in 1..(i - 1) : recs[j].recommendation_id # id

\* {"$set": update} on one document.
SetFieldsResetsFlags(doc, update) ==
    [k \in DOMAIN doc |->
        IF k \in DOMAIN update THEN update[k]
        ELSE IF k \in {"is_viewed", "is_clicked"} THEN FALSE ELSE doc[k]]

SetFieldsDropsReason(doc, update) ==
    [k \in DOMAIN doc |->
        IF k \in DOMAIN update THEN update[k]
        ELSE IF k = "reason" THEN "" ELSE doc[k]]

SetFields(doc, update) ==
    [k \in DOMAIN doc |-> IF k \in DOMAIN update THEN update[k] ELSE doc[k]]

\* update_one({"recommendation_id": id}, {"$set": update(doc)})
UpdateOne(recs, id, update(_)) ==
    IF ~HasId(recs, id) THEN recs
    ELSE [recs EXCEPT ![FirstWithId(recs, id)] = SetFields(@, update(@))]

\* result.modified_count > 0
Modified(before, after, id) == before # after

\* create_recommendation, lines 23-43: the defaults of a missing field.
WithDefaults(data, n) ==
    [data EXCEPT
        !.timestamp = Get(@, now),
        !.expires_at = Get(@, now + RecommendationTTL),
        !.recommendation_id = Get(@, n)]

\* A record handed to create_recommendation without id, timestamp and expiry.
BareRecommendation ==
    [NewRecommendation(SeedCatalog[3], 80, Absent) EXCEPT
        !.timestamp = Absent, !.expires_at = Absent]

\* services/recommendation.py lines 64-76: no expires_at, feedback or
\* conversion.
LegacyRecommendation(p, n) ==
    [NewRecommendation(p, 85, n) EXCEPT
        !.reason = "legacy", !.expires_at = Absent]

\* Collections the operations start from: empty, or two records of the
\* enhanced generate, the first one viewed and clicked.
StoredRecommendations ==
    { <<>>,
      << [NewRecommendation(SeedCatalog[1], 75, 1) EXCEPT
             !.is_viewed = TRUE, !.is_clicked = TRUE],
         NewRecommendation(SeedCatalog[3], 60, 2) >> }

StoreInit ==
    /\ recommendations \in StoredRecommendations
    /\ st_result = FALSE /\ rf_id = 0 /\ st_last = NoOp /\ st_ops = 0

Counted == st_ops < MaxOps /\ st_ops' = st_ops + 1

Op(name, id) ==
    [op |-> name, id |-> id, existed |-> HasId(recommendations, id)]

\* The enhanced generate storing an accepted candidate (lines 111-139).
CreateFromGenerate ==
    /\ Counted
    /\ Len(recommendations) < MaxRecs
    /\ LET n == Len(recommendations) + 1
       IN /\ recommendations' =
                 Append(recommendations,
                        WithDefaults(NewRecommendation(SeedCatalog[1], 75, n), n))
          /\ st_last' = Op("create", n)
    /\ st_result' = TRUE
    /\ UNCHANGED <<rf_id, now, StoreFrame>>

CreateWithDefaults ==
    /\ Counted
    /\ Len(recommendations) < MaxRecs
    /\ LET n == Len(recommendations) + 1
       IN /\ recommendations' =
                 Append(recommendations, WithDefaults(BareRecommendation, n))
          /\ st_last' = Op("create", n)
    /\ st_result' = TRUE
    /\ UNCHANGED <<rf_id, now, StoreFrame>>

\* RecommendationService.generate_recommendations inserting one record.
LegacyGenerate ==
    /\ Counted
    /\ Len(recommendations) < MaxRecs
    /\ LET n == Len(recommendations) + 1
       IN /\ recommendations' =
                 Append(recommendations, LegacyRecommendation(SeedCatalog[2], n))
          /\ st_last' = Op("legacy create", n)
    /\ st_result' = TRUE
    /\ UNCHANGED <<rf_id, now, StoreFrame>>

Mutate(name, id, update(_)) ==
    LET after == UpdateOne(recommendations, id, update)
    IN /\ recommendations' = after
       /\ st_result' = Modified(recommendations, after, id)
       /\ st_last' = Op(name, id)

update_recommendation(id, data) ==
    /\ Counted
    /\ LET update(doc) == data IN Mutate("update", id, update)
    /\ UNCHANGED <<rf_id, now, StoreFrame>>

mark_recommendation_viewed(id) ==
    /\ Counted
    /\ LET update(doc) == [is_viewed |-> TRUE] IN Mutate("viewed", id, update)
    /\ UNCHANGED <<rf_id, now, StoreFrame>>

mark_recommendation_clicked(id) ==
    /\ Counted
    /\ LET update(doc) == [is_clicked |-> TRUE] IN Mutate("clicked", id, update)
    /\ UNCHANGED <<rf_id, now, StoreFrame>>

record_recommendation_feedback(id, is_helpful) ==
    /\ Counted
    /\ now' = now + 1
    /\ LET update(doc) ==
               [feedback |-> SetFields(doc.feedback,
                                       [is_helpful |-> is_helpful,
                                        feedback_date |-> now'])]
       IN Mutate("feedback", id, update)
    /\ UNCHANGED <<rf_id, StoreFrame>>

record_recommendation_conversion(id, is_converted) ==
    /\ Counted
    /\ now' = now + 1
    /\ LET update(doc) ==
               [conversion |-> [is_converted |-> is_converted,
                                conversion_date |-> now']]
       IN Mutate("conversion", id, update)
    /\ UNCHANGED <<rf_id, StoreFrame>>

\* refresh_recommendation_content up to the advisor call (lines 229-263).
RefreshContentStart(id) ==
    /\ Counted
    /\ rf_id = 0
    /\ IF HasId(recommendations, id)
       THEN rf_id' = id /\ UNCHANGED <<st_result, st_last>>
       ELSE /\ rf_id' = 0
            /\ st_result' = FALSE
            /\ st_last' = Op("refresh", id)
    /\ UNCHANGED <<recommendations, now, StoreFrame>>

\* Lines 265-282: the update written after the advisor answered.
RefreshUpdate(score, t) ==
    [reason |-> "refreshed", score |-> score, updated_at |-> t,
     metadata |-> [generation_time |-> t, is_refresh |-> TRUE]]

RefreshContentReturns(score) ==
    /\ Counted
    /\ rf_id # 0
    /\ now' = now + 1
    /\ LET update(doc) == RefreshUpdate(score, now')
       IN Mutate("refresh", rf_id, update)
    /\ rf_id' = 0
    /\ UNCHANGED StoreFrame

\* Lines 284-286: the advisor call raised.
RefreshContentRaises ==
    /\ Counted
    /\ rf_id # 0
    /\ st_result' = FALSE
    /\ st_last' = [Op("refresh", rf_id) EXCEPT !.op = "refresh failed"]
    /\ rf_id' = 0
    /\ UNCHANGED <<recommendations, now, StoreFrame>>

StoreSpecInit ==
    /\ InsIdle
    /\ StoreInit
    /\ user = NoUser /\ catalog = <<>> /\ pc = "off" /\ count = 0
    /\ eligible_products = <<>> /\ idx = 0 /\ recommendation_records = <<>>
    /\ calls = <<>> /\ result = <<>>
    /\ ScorerIdle /\ AnomIdle /\ ExpIdle /\ GenIdle /\ AdapterIdle /\ TogglesIdle
    /\ LaterIdle

StoreNext ==
    \/ CreateFromGenerate
    \/ CreateWithDefaults
    \/ LegacyGenerate
    \/ \E id \in RecIds : update_recommendation(id, [score |-> 80])
    \/ \E id \in RecIds : mark_recommendation_viewed(id)
    \/ \E id \in RecIds : mark_recommendation_clicked(id)
    \/ \E id \in RecIds, h \in {"true", "false"} : record_recommendation_feedback(id, h)
    \/ \E id \in RecIds : record_recommendation_conversion(id, TRUE)
    \/ \E id \in RecIds : RefreshContentStart(id)
    \/ \E score \in RefreshScores : RefreshContentReturns(score)
    \/ RefreshContentRaises

SpecStore == StoreSpecInit /\ [][StoreNext]_vars

\* ---- properties of the recommendation store
PreservedByRefresh ==
    {"recommendation_id", "user_id", "product_id", "timestamp", "expires_at",
     "is_viewed", "is_clicked", "feedback", "conversion"}

RefreshSucceeds ==
    rf_id # 0 /\ rf_id' = 0 /\ st_last'.op = "refresh" /\ st_result'

\* C17: a successful refresh_recommendation_content changes only reason,
\* score, updated_at and metadata of the target recommendation; its identity,
\* timestamps and tracking fields are the same before and after, and no other
\* recommendation is modified.
C17_RefreshChangesContentOnly ==
    [][ RefreshSucceeds =>
          /\ Len(recommendations') = Len(recommendations)
          /\ \A i \in 1..Len(recommendations) :
                IF recommendations[i].recommendation_id = rf_id
                THEN \A k \in PreservedByRefresh :
                         recommendations'[i][k] = recommendations[i][k]
                ELSE recommendations'[i] = recommendations[i] ]_vars

C17_Witness ==
    /\ st_last.op = "refresh" /\ st_result
    /\ Len(recommendations) = 2
    /\ \E i \in 1..2 :
          /\ recommendations[i].recommendation_id = st_last.id
          /\ recommendations[i].is_viewed /\ recommendations[i].is_clicked
          /\ recommendations[i].reason = "refreshed"
          /\ recommendations[i].metadata.is_refresh
          /\ recommendations[i].updated_at # Absent

\* C18: every stored recommendation, whichever creation path produced it, has
\* an expires_at, strictly later than its timestamp.
C18_ExpiresAfterCreation ==
    \A r \in Returned(recommendations) :
        r.expires_at # Absent /\ r.expires_at > r.timestamp

\* The paths through create_recommendation do give it.
C18_CreateRecommendationExpires ==
    st_last.op = "create" =>
        \A r \in Returned(recommendations) :
            r.recommendation_id = st_last.id =>
                (r.expires_at # Absent /\ r.expires_at > r.timestamp)

StoreMutations == {"update", "viewed", "clicked", "feedback", "conversion"}

\* C19: a store mutation reports not-found exactly when no recommendation with
\* the given id exists; on an existing recommendation it reports success,
\* also when repeated with the same value.
C19_NotFoundIffMissing ==
    st_last.op \in StoreMutations => (st_result <=> st_last.existed)

\* One direction holds: a mutation of a missing id never reports success.
C19_MissingNeverSucceeds ==
    (st_last.op \in StoreMutations /\ ~st_last.existed) => ~st_result

ScoreReturned ==
    /\ g_phase = "returned" /\ g_method = "generate_product_recommendation"
    /\ ~g_outcome.raised

\* The text is an integer written in digits alone.
IsDigitsOnly(text) == text # <<>> /\ DigitsOf(text) = text

TrackingMutators == {"viewed", "clicked", "feedback", "conversion"}

OwnFields(op) ==
    CASE op = "viewed" -> {"is_viewed"}
      [] op = "clicked" -> {"is_clicked"}
      [] op = "feedback" -> {"feedback"}
      [] op = "conversion" -> {"conversion"}
      [] OTHER -> {}

\* C21: the tracking mutators (mark viewed, mark clicked, record feedback,
\* record conversion) apply in any order and any number of times; each changes
\* only its own field(s) of the recommendation with the given id and leaves the
\* other tracking fields, the score, the reason, the expiry and every other
\* recommendation unchanged.
C21_TrackingChangesOwnFieldOnly ==
    [][ (st_ops' # st_ops /\ st_last'.op \in TrackingMutators) =>
          /\ Len(recommendations') = Len(recommendations)
          /\ \A i \in 1..Len(recommendations) :
                IF recommendations[i].recommendation_id = st_last'.id
                THEN \A k \in DOMAIN recommendations[i] \ OwnFields(st_last'.op) :
                         recommendations'[i][k] = recommendations[i][k]
                ELSE recommendations'[i] = recommendations[i] ]_vars

C21_Witness ==
    /\ st_last.op \in TrackingMutators /\ st_result
    /\ \E i \in 1..Len(recommendations) :
          /\ recommendations[i].recommendation_id = st_last.id
          /\ recommendations[i].is_viewed /\ recommendations[i].is_clicked
          /\ recommendations[i].feedback.is_helpful = "true"
          /\ recommendations[i].conversion.is_converted
          /\ recommendations[i].reason = "generated"
          /\ recommendations[i].expires_at = recommendations[i].timestamp + RecommendationTTL

C26_ThresholdUntilRefresh ==
    (\A r \in Returned(recommendations) : r.updated_at = Absent) =>
        \A r \in Returned(recommendations) : r.score >= ScoreThreshold

\* ------------------------------------------------------------------------
\* Read, acted-upon and acknowledged toggles of one user document
\* (InsightsService.mark_insight_read / record_insight_action, the
\* acknowledge-anomaly route, UserOperations.update_user).
\* ------------------------------------------------------------------------
MaxToggles == 3

InsightIds == {101, 102, 103}
AnomalyIds == {1, 2, 3}

\* The fields of the user document the operations read and write.
UserDoc ==
    [insights |-> insights, anomalies |-> anomalies, updated_at |-> user_updated_at]

\* update_user, line 74 left out: the update as the caller built it.
Unstamped(update_data, t) == update_data

\* update_user, line 74: update_data["updated_at"] = datetime.now()
Stamped(update_data, t) ==
    [k \in DOMAIN update_data \cup {"updated_at"} |->
        IF k = "updated_at" THEN t ELSE update_data[k]]

\* update_user, lines 76-81: $set of the stamped update; modified_count > 0.
UpdatedUser(doc, update_data, t) == SetFields(doc, Stamped(update_data, t))

\* "for x in collection: if x.get(key) == id: ...; break"
HasItem(coll, key, id) == \E i \in 1..Len(coll) : coll[i][key] = id

FirstItem(coll, key, id) ==
    CHOOSE i \in 1..Len(coll) :
        /\ coll[i][key] = id
        /\ \A j \in 1..(i - 1) : coll[j][key] # id

SetInFirst(coll, key, id, field, value) ==
    [coll EXCEPT ![FirstItem(coll, key, id)] = [@ EXCEPT ![field] = value]]

\* Collections the user document starts with.
ToggleInsights ==
    { <<>>,
      << Insight(101, 0, 30, FALSE) >>,
      << Insight(101, 0, 30, TRUE), Insight(102, 0, 30, FALSE) >> }

ToggleAnomalies ==
    { <<>>,
      << [anomaly_id |-> 1, detection_date |-> 0, is_acknowledged |-> TRUE],
         Anomaly(2) >> }

TogglesInit ==
    /\ insights \in ToggleInsights
    /\ anomalies \in ToggleAnomalies
    /\ now = 0
    /\ user_updated_at = 0
    /\ u_last = NoToggle
    /\ u_result = ""
    /\ u_ops = 0

ToggleFrame ==
    <<s_vars, r_vars, next_id, ipc, isnap, ireturned, lastw, nrefresh,
      transactions, apc, advisor_calls, aresult, e_vars, v_vars, g_vars, st_vars,
      l_vars>>

Toggle(name, id, arg, found) ==
    [op |-> name, id |-> id, arg |-> arg, found |-> found,
     repeated |-> (u_last.op = name /\ u_last.id = id /\ u_last.arg = arg)]

ToggleCounted == u_ops < MaxToggles /\ u_ops' = u_ops + 1

\* One call: the scan for the id, the field set in the first match, the
\* document written with update_user at a time later than every stamp so far,
\* the result the caller gets.
ToggleCall(name, coll, key, id, field, value, arg, missing, unmodified) ==
    /\ u_last' = Toggle(name, id, arg, HasItem(UserDoc[coll], key, id))
    /\ IF ~HasItem(UserDoc[coll], key, id)
       THEN /\ u_result' = missing
            /\ UNCHANGED <<insights, anomalies, user_updated_at, now>>
       ELSE LET update_data ==
                    IF coll = "insights"
                    THEN [insights |-> SetInFirst(insights, key, id, field, value)]
                    ELSE [anomalies |-> SetInFirst(anomalies, key, id, field, value)]
                after == UpdatedUser(UserDoc, update_data, now + 1)
            IN  /\ now' = now + 1
                /\ insights' = after.insights
                /\ anomalies' = after.anomalies
                /\ user_updated_at' = after.updated_at
                /\ u_result' = IF after # UserDoc THEN "success" ELSE unmodified

\* mark_insight_read (lines 226-263) behind its route (routers/insights.py
\* lines 55-69): False, whatever its cause, is answered 404 "Insight not found".
mark_insight_read(id) ==
    /\ ToggleCounted
    /\ ToggleCall("read", "insights", "insight_id", id, "is_read", TRUE, "",
                  "not_found", "not_found")
    /\ UNCHANGED ToggleFrame

\* record_insight_action (lines 265-303) behind its route (lines 71-85).
record_insight_action(id, acted_upon) ==
    /\ ToggleCounted
    /\ ToggleCall("action", "insights", "insight_id", id, "is_acted_upon",
                  acted_upon, acted_upon, "not_found", "not_found")
    /\ UNCHANGED ToggleFrame

\* acknowledge_anomaly (routers/transaction_intelligence.py lines 87-114): 404
\* "Anomaly not found" without a match, 500 when update_user reports False.
acknowledge_anomaly(id) ==
    /\ ToggleCounted
    /\ ToggleCall("acknowledge", "anomalies", "anomaly_id", id, "is_acknowledged",
                  TRUE, "", "not_found", "failed")
    /\ UNCHANGED ToggleFrame

TogglesSpecInit ==
    /\ TogglesInit
    /\ next_id = 0 /\ ipc = [t \in Tasks |-> "off"] /\ isnap = [t \in Tasks |-> <<>>]
    /\ ireturned = [t \in Tasks |-> "none"] /\ lastw = NoWrite /\ nrefresh = 0
    /\ transactions = [expense |-> 0, income |-> 0]
    /\ apc = "off" /\ advisor_calls = 0 /\ aresult = 0
    /\ ScorerIdle /\ RecIdle /\ ExpIdle /\ GenIdle /\ AdapterIdle /\ StoreIdle
    /\ LaterIdle

TogglesNext ==
    \/ \E id \in InsightIds : mark_insight_read(id)
    \/ \E id \in InsightIds, a \in {"true", "false"} : record_insight_action(id, a)
    \/ \E id \in AnomalyIds : acknowledge_anomaly(id)

SpecToggles == TogglesSpecInit /\ [][TogglesNext]_vars

\* ---- properties of the toggles
TargetCollection(op) == IF op = "acknowledge" THEN anomalies ELSE insights
TargetKey(op) == IF op = "acknowledge" THEN "anomaly_id" ELSE "insight_id"

InUsersCollection(op, id) == HasItem(TargetCollection(op), TargetKey(op), id)

SameCallAgain ==
    /\ u_last'.op = u_last.op /\ u_last'.id = u_last.id
    /\ u_last'.arg = u_last.arg

AnomRefreshInit ==
    /\ AnomInit
    /\ ScorerIdle /\ RecIdle /\ InsIdle /\ NewIdle

AnomRefreshNext ==
    \/ DetectStart
    \/ \E raw \in AdvisorAnomalies : AnomalyAdvisorReturns(raw)
    \/ AnomalyAdvisorRaises
    \/ \E id \in AnomalyIds : acknowledge_anomaly(id)

SpecAnomalyRefresh == AnomRefreshInit /\ [][AnomRefreshNext]_vars

RefreshStores == apc = "awaiting" /\ apc' = "done" /\ aresult' > 0

\* C22: a successful anomaly refresh only appends.  Every anomaly stored
\* before it is still stored afterwards, unchanged and at the same position,
\* followed by the newly detected anomalies, each with an anomaly_id, a
\* detection_date and is_acknowledged = false; the collection is never
\* truncated.
C22_RefreshOnlyAppends ==
    [][ RefreshStores =>
          /\ Len(anomalies') = Len(anomalies) + aresult'
          /\ \A i \in 1..Len(anomalies) : anomalies'[i] = anomalies[i]
          /\ \A i \in (Len(anomalies) + 1)..Len(anomalies') :
                /\ anomalies'[i].anomaly_id # Absent
                /\ anomalies'[i].detection_date # Absent
                /\ anomalies'[i].is_acknowledged = FALSE ]_vars

C22_Witness ==
    /\ apc = "done" /\ aresult = 3
    /\ Len(anomalies) = 4
    /\ anomalies[1].anomaly_id = 1 /\ anomalies[1].is_acknowledged
    /\ anomalies[2].anomaly_id = 2 /\ anomalies[3].anomaly_id = 9
    /\ u_last.op = "acknowledge"

\* ------------------------------------------------------------------------
\* generate_comparison (enhanced_recommendation.py lines 288-375): one call on
\* a list of recommendation ids.  The call has no await before it returns.
\* ------------------------------------------------------------------------
MaxIds == 3

\* The stored recommendations the ids may name: their user and whether their
\* product is still in the catalog.  Id 5 names no stored recommendation.
ComparedStore ==
    [id \in 1..4 |->
        CASE id = 1 -> [user_id |-> "u1", product_found |-> TRUE]
          [] id = 2 -> [user_id |-> "u1", product_found |-> TRUE]
          [] id = 3 -> [user_id |-> "u2", product_found |-> TRUE]
          [] id = 4 -> [user_id |-> "u1", product_found |-> FALSE]]

ComparedIds == 1..5

IdLists == UNION { [1..n -> ComparedIds] : n \in 0..MaxIds }

\* Lines 305-335: the loop over the ids.  A missing recommendation is skipped,
\* a recommendation of another user than the first one found ends the call, a
\* recommendation whose product is missing is skipped after its user was
\* taken.
RECURSIVE CollectCompared(_, _, _)
CollectCompared(ids, user_id, recs) ==
    IF ids = <<>> THEN [mismatch |-> FALSE, recs |-> recs]
    ELSE IF Head(ids) \notin DOMAIN ComparedStore
         THEN CollectCompared(Tail(ids), user_id, recs)
    ELSE LET rec == ComparedStore[Head(ids)]
         IN IF user_id # AbsentStr /\ user_id # rec.user_id
            THEN [mismatch |-> TRUE, recs |-> recs]
            ELSE IF ~rec.product_found
                 THEN CollectCompared(Tail(ids), rec.user_id, recs)
                 ELSE CollectCompared(Tail(ids), rec.user_id,
                                      Append(recs, Head(ids)))

\* Lines 299-300, 314-315, 337-343: the answer of the call.
ComparisonResult(ids, user_found) ==
    LET c == CollectCompared(ids, AbsentStr, <<>>)
    IN  IF Len(ids) < 2 THEN "error: at least two"
        ELSE IF c.mismatch THEN "error: same user"
        ELSE IF Len(c.recs) < 2 THEN "error: not enough valid"
        ELSE IF ~user_found THEN "error: user not found"
        ELSE "comparison"

CompareInit ==
    /\ c_ids \in IdLists
    /\ c_user_found \in BOOLEAN
    /\ c_pc = "called"
    /\ c_result = ""
    /\ c_compared = <<>>

generate_comparison ==
    /\ c_pc = "called"
    /\ c_pc' = "returned"
    /\ c_result' = ComparisonResult(c_ids, c_user_found)
    /\ c_compared' = IF ComparisonResult(c_ids, c_user_found) = "comparison"
                     THEN CollectCompared(c_ids, AbsentStr, <<>>).recs
                     ELSE <<>>
    /\ UNCHANGED <<c_ids, c_user_found, b_vars, j_vars, k_vars>>

CompareSpecInit ==
    /\ CompareInit
    /\ ScorerIdle /\ RecIdle /\ InsIdle /\ AnomIdle
    /\ ExpIdle /\ GenIdle /\ AdapterIdle /\ StoreIdle /\ TogglesIdle
    /\ JobIdle /\ CallIdle

CompareNext == generate_comparison

SpecCompare == CompareSpecInit /\ [][CompareNext]_vars

\* ---- properties of generate_comparison
Named(ids) == { ids[i] : i \in 1..Len(ids) } \cap DOMAIN ComparedStore

UsersOf(idset) == { ComparedStore[id].user_id : id \in idset }

C24_TwoEntriesOneUser ==
    c_pc = "returned" =>
        /\ (Len(c_ids) < 2 \/ Cardinality(UsersOf(Named(c_ids))) > 1)
              => c_result # "comparison"
        /\ c_result = "comparison" =>
              /\ Len(c_compared) >= 2
              /\ Cardinality(UsersOf(Named(c_compared))) = 1

\* ------------------------------------------------------------------------
\* refresh_all_user_insights (insights_service.py lines 173-224), the
\* background job of POST /insights/refresh-all.  UserOperations
\* (db/user_operations.py lines 12-214) has no attribute _get_all_users, so
\* the first statement of the job raises AttributeError inside the outer try.
\* ------------------------------------------------------------------------
MaxUsers == 4

\* The stored users: with a user_id or without one.
StoredUsers == {"u1", "u2", AbsentStr}

UserLists == UNION { [1..n -> StoredUsers] : n \in 0..MaxUsers }

JobInit ==
    /\ j_users \in UserLists
    /\ j_pc = "scheduled"
    /\ j_invoked = <<>>
    /\ j_result = NoJobResult

\* Line 183 raises; lines 218-224 return the error, with no users_processed,
\* before any user is looked at.
refresh_all_user_insights ==
    /\ j_pc = "scheduled"
    /\ j_pc' = "returned"
    /\ j_invoked' = <<>>
    /\ j_result' = [error |-> TRUE, users_processed |-> Absent]
    /\ UNCHANGED <<j_users, b_vars, c_vars, k_vars>>

JobSpecInit ==
    /\ JobInit
    /\ ScorerIdle /\ RecIdle /\ InsIdle /\ AnomIdle
    /\ ExpIdle /\ GenIdle /\ AdapterIdle /\ StoreIdle /\ TogglesIdle
    /\ CompareIdle /\ CallIdle

JobNext == refresh_all_user_insights

SpecJob == JobSpecInit /\ [][JobNext]_vars

\* ---- properties of the job
UsersWithId == SelectSeq(j_users, LAMBDA u : u # AbsentStr)

\* C25: the refresh-all-users job invokes generate_user_insights exactly once
\* for every stored user that has a user_id, one user at a time in the stored
\* order, and terminates reporting users_processed equal to the number of such
\* users.
C25_EveryUserRefreshedOnce ==
    j_pc = "returned" =>
        /\ j_invoked = UsersWithId
        /\ j_result.users_processed = Len(UsersWithId)

\* ------------------------------------------------------------------------
\* generate_user_insights (insights_service.py lines 22-107), one call with
\* the step that fails, if any: the profile lookup, the transaction query,
\* the advisor call or the store write.  mark_insight_read may be applied to
\* any id before, during and after the call.
\* ------------------------------------------------------------------------
Failures == {"none", "lookup", "no user", "query", "advisor", "store"}

\* _generate_fallback_insights (lines 109-171): the basic insight, and the
\* emergency-fund insight when a profile without such a goal is given, each
\* with a fresh id; nothing is written.
FallbackInsights(with_user, no_fund, first_id, t) ==
    IF with_user /\ no_fund
    THEN << Insight(first_id + 1, t, t + InsightTTL, FALSE),
            Insight(first_id + 2, t, t + InsightTTL, FALSE) >>
    ELSE << Insight(first_id + 1, t, t + InsightTTL, FALSE) >>

Fallback == [raised |-> FALSE, kind |-> "fallback",
             list |-> FallbackInsights(TRUE, k_no_fund, next_id, now)]

\* Line 107 when line 34 raised: "user" is not bound yet, the handler itself
\* raises UnboundLocalError and nothing is returned.
HandlerRaises == [raised |-> TRUE, kind |-> "", list |-> <<>>]

CallInit ==
    /\ insights \in SeedInsights
    /\ now = 0
    /\ next_id = 0
    /\ k_fail \in Failures
    /\ k_has_tx \in BOOLEAN
    /\ k_no_fund \in BOOLEAN
    /\ k_pc = "called"
    /\ k_loaded = <<>>
    /\ k_outcome = NoReturn

CallFrame ==
    <<now, ipc, isnap, ireturned, lastw, nrefresh, s_vars, r_vars, a_vars,
      e_vars, v_vars, g_vars, st_vars, u_vars, c_vars, j_vars>>

\* Lines 32-52: up to the advisor call.
InsightCallStart ==
    /\ k_pc = "called"
    /\ IF k_fail = "lookup"
       THEN k_pc' = "returned" /\ k_outcome' = HandlerRaises /\ UNCHANGED k_loaded
       ELSE IF k_fail = "no user"
       THEN /\ k_pc' = "returned" /\ UNCHANGED k_loaded
            /\ k_outcome' = [raised |-> FALSE, kind |-> "empty", list |-> <<>>]
       ELSE IF k_fail = "query" \/ ~k_has_tx
       THEN k_pc' = "returned" /\ k_outcome' = Fallback /\ UNCHANGED k_loaded
       ELSE k_pc' = "awaiting" /\ k_loaded' = insights /\ UNCHANGED k_outcome
    /\ UNCHANGED <<insights, next_id, k_fail, k_has_tx, k_no_fund, CallFrame>>

\* Lines 52-107: the advisor raises or answers with n insights; an empty
\* answer gives the fallback, otherwise the merged collection is written to
\* the profile, and a failing write gives the fallback.
InsightCallAnswer(n) ==
    /\ k_pc = "awaiting"
    /\ k_pc' = "returned"
    /\ IF k_fail = "advisor" \/ n = 0
       THEN k_outcome' = Fallback /\ UNCHANGED <<insights, next_id>>
       ELSE LET processed == ProcessedInsights(n, next_id, now)
            IN IF k_fail = "store"
               THEN k_outcome' = Fallback /\ UNCHANGED <<insights, next_id>>
               ELSE /\ insights' = CombinedInsights(k_loaded, processed, now)
                    /\ next_id' = next_id + n
                    /\ k_outcome' = [raised |-> FALSE, kind |-> "processed",
                                     list |-> processed]
    /\ UNCHANGED <<k_fail, k_has_tx, k_no_fund, k_loaded, CallFrame>>

CallSpecInit ==
    /\ CallInit
    /\ ipc = [t \in Tasks |-> "off"] /\ isnap = [t \in Tasks |-> <<>>]
    /\ ireturned = [t \in Tasks |-> "none"] /\ lastw = NoWrite /\ nrefresh = 0
    /\ ScorerIdle /\ RecIdle /\ AnomIdle
    /\ ExpIdle /\ GenIdle /\ AdapterIdle /\ StoreIdle /\ TogglesIdle
    /\ CompareIdle /\ JobIdle

\* Ids a later mark-read is tried with: stored ones and returned ones.
ReadIds == {1, 2, 101}

CallNext ==
    \/ InsightCallStart
    \/ \E n \in InsightCounts : InsightCallAnswer(n)
    \/ \E id \in ReadIds : mark_insight_read(id)

SpecInsightCall == CallSpecInit /\ [][CallNext]_vars

\* ---- properties of one call
\* C27: generate_user_insights never raises to its caller: whichever step
\* fails (profile lookup, transaction query, advisor call, store write) it
\* returns a list of insights, the fallback insights or an empty list.
C27_NeverRaises ==
    k_pc = "returned" =>
        /\ ~k_outcome.raised
        /\ k_outcome.kind \in {"fallback", "empty", "processed"}

\* What the code guarantees: the same when the profile lookup does not fail.
C27_NoRaiseAfterLookup ==
    (k_pc = "returned" /\ k_fail # "lookup") =>
        /\ ~k_outcome.raised
        /\ k_outcome.kind \in {"fallback", "empty", "processed"}

ReturnedIds == { k_outcome.list[i].insight_id : i \in 1..Len(k_outcome.list) }

TakesFallbackPath ==
    /\ k_pc = "returned"
    /\ \/ k_fail \in {"lookup", "query", "advisor", "store"}
       \/ ~k_has_tx
       \/ k_outcome.kind = "fallback"

\* C29: when generate_user_insights takes a fallback path (no transactions in
\* the window, an empty advisor answer, or an exception) it returns the
\* fallback insights and leaves the stored insight collection unchanged; a
\* fallback insight is never persisted, so a later mark-read does not find its
\* insight_id.
C29_FallbackReturnedNotPersisted ==
    [][ /\ (k_pc # "returned" /\ TakesFallbackPath' /\ k_fail # "no user") =>
              /\ k_outcome'.kind = "fallback" /\ ~k_outcome'.raised
              /\ insights' = insights
        /\ (k_outcome.kind = "fallback" /\ u_ops' # u_ops
               /\ u_last'.id \in ReturnedIds) =>
              u_result' = "not_found" ]_vars

\* What the code guarantees: whenever fallback insights are returned, nothing
\* was written and none of them is found by a later mark-read.
C29_FallbackNeverPersisted ==
    [][ /\ (k_pc # "returned" /\ k_outcome'.kind = "fallback") =>
              insights' = insights
        /\ (k_outcome.kind = "fallback" /\ u_ops' # u_ops
               /\ u_last'.id \in ReturnedIds) =>
              u_result' = "not_found" ]_vars

\* ------------------------------------------------------------------------
\* Insight refreshes of one user interleaved with mark-read and record-action
\* requests for the same user: the refresh of POST /{user_id}/refresh runs as
\* a background task and is suspended at its advisor call, the requests are
\* served meanwhile.
\* ------------------------------------------------------------------------
\* One refresh task is enough for the interleaving; the other never starts.
MarksInit ==
    /\ insights \in SeedInsights
    /\ now = 0
    /\ next_id = 0
    /\ ipc = [t \in Tasks |-> IF t = "t1" THEN "idle" ELSE "off"]
    /\ isnap = [t \in Tasks |-> <<>>]
    /\ ireturned = [t \in Tasks |-> "none"]
    /\ lastw = NoWrite
    /\ nrefresh = 0
    /\ ScorerIdle /\ RecIdle /\ AnomIdle /\ NewIdle

MarksNext ==
    \/ \E t \in Tasks, has_transactions \in BOOLEAN : RefreshStart(t, has_transactions)
    \/ \E t \in Tasks, n \in InsightCounts : AdvisorInsights(t, n)
    \/ \E t \in Tasks : AdvisorInsightsRaises(t)
    \/ Tick
    \/ \E id \in InsightIds : mark_insight_read(id)
    \/ \E id \in InsightIds : record_insight_action(id, "true")

SpecInsightMarks == MarksInit /\ [][MarksNext]_vars

StoredIds(coll) == { coll[i].insight_id : i \in 1..Len(coll) }

\* C28: once an insight is marked read its stored is_read stays true for as
\* long as it remains in the stored collection, and it leaves the collection
\* only by expiry or by the 10-entry cap, under every interleaving of
\* mark-read / record-action operations with refreshes of the same user.
C28_ReadStaysRead ==
    [][ \A i \in 1..Len(insights) :
          insights[i].is_read =>
             /\ \A j \in 1..Len(insights') :
                   insights'[j].insight_id = insights[i].insight_id
                       => insights'[j].is_read
             /\ insights[i].insight_id \notin StoredIds(insights')
                   => \/ insights[i].expires_at <= now'
                      \/ Len(insights') = MaxInsights ]_vars

\* What the code guarantees: the same when no refresh is suspended at its
\* advisor call while an insight is marked.
C28_ReadStaysWithoutOverlap ==
    [][ (\A t \in Tasks : ipc[t] # "awaiting" \/ isnap[t] = insights) =>
          \A i \in 1..Len(insights) :
             insights[i].is_read =>
                \A j \in 1..Len(insights') :
                   insights'[j].insight_id = insights[i].insight_id
                       => insights'[j].is_read ]_vars

\* ------------------------------------------------------------------------
\* generate_recommendations called again for the same user: every
\* GET /enhanced-recommendations/{user_id}?refresh=true is one more call
\* (routers/enhanced_recommendations.py lines 25-29) on the recommendations
\* the calls before it stored.
\* ------------------------------------------------------------------------
MaxStored == 3

\* The call has returned and the next request arrives.
NextRequest ==
    /\ pc = "done"
    /\ Len(recommendations) < MaxStored
    /\ pc' = "idle"
    /\ UNCHANGED <<user, catalog, recommendations, count, eligible_products, idx,
                   recommendation_records, calls, result,
                   s_vars, i_vars, a_vars, n_vars>>

RegenerateInit == RecInit /\ ScorerIdle /\ InsIdle /\ AnomIdle /\ NewIdle

RegenerateNext ==
    \/ \E c \in 1..MaxCount : GenerateStart(c)
    \/ \E score \in AdvisorScores : AdvisorReturns(score)
    \/ AdvisorRaises
    \/ NextRequest

SpecRegenerate == RegenerateInit /\ [][RegenerateNext]_vars

Unexpired(r) == r.expires_at > now

C30_OnePerProductInOneCall ==
    \A i, j \in 1..Len(recommendation_records) :
        i < j => recommendation_records[i].product_id
                    # recommendation_records[j].product_id

====
